---- MODULE Spec2Model ----
(***************************************************************************)
(* Session-log repair engine of zazula/claude-code: fix-session (scan and  *)
(* rewrite), the deep cleaners, FileLock and FileTransaction.               *)
(*                                                                         *)
(* A log is a sequence of lines.  A line is a record                        *)
(*   fmt     "canon" when the text equals JSON.stringify(JSON.parse(text)), *)
(*           "spaced" when it parses to the same value but is written       *)
(*           differently (whitespace, escapes)                              *)
(*   k       "msg" (has entry.message), "bare" (top-level role/content, no  *)
(*           message wrapper), "summary" (type = summary), "junk" (does not *)
(*           parse), "blank" (empty or whitespace only)                     *)
(*   role    message.role (or the top-level role of a bare record)          *)
(*   content the content blocks                                             *)
(*   summary the lines of entry.summary                                     *)
(* A content block is [type, id, is_error, text]; text is a sequence of     *)
(* text lines [w, ids, red]: w the kind of words on the line, ids the       *)
(* deny-listed ids it mentions, red the number of redaction placeholders.   *)
(***************************************************************************)
EXTENDS Integers, Sequences, FiniteSets, TLC

VARIABLES
  file,      \* the session log on disk (sessionPath), a sequence of lines
  input,     \* the log as it was before the first run
  prev,      \* the log as it was before the latest run
  backup,    \* sessionPath + '.backup', written by fix-session (NoFile when absent)
  preclean,  \* sessionPath + '.pre-deep-clean', written by deep-clean v1
  issues,    \* the issues reported by the latest scan of fix-session
  rewrote,   \* whether the latest run rewrote the log
  runs,      \* how many repair runs have been made
  tool,      \* which tool made the latest run
  wlog,      \* the writes onto sessionPath made by the latest run: [by, locked]
  mid,       \* the log as the deep cleaner left it, before the standard repair
  \* --- FileLock, one lock path shared by several processes
  lockFile,  \* the file at lockPath: [st, owner, old]
  pc,        \* per process: where it is in acquire() / release()
  info,      \* per process: the lockInfo it read last
  alive,     \* per process: whether the process exists (process.kill(pid, 0))
  \* --- FileTransaction, two processes on one originalPath
  orig,      \* content of originalPath
  txBackup,  \* content of originalPath + '.tx-backup' (Absent when missing)
  txTemp,    \* content of originalPath + '.tx-temp' (Absent when missing)
  txLock,    \* whose lock is at lockPath: "none", "tx", "other", and "_old"
  locked,    \* this.locked
  txpc,      \* where the transaction is
  pre,       \* content of originalPath when begin() was called
  hist,      \* what has happened in this transaction: [begun, wrote, txs]
  opc,       \* where the other process's transaction is
  outOfTurn, \* outcome of the latest commit() / rollback() made with no
             \* transaction open ("none" when there was no such call)
  \* --- the command lines and claude-patched
  cli,       \* the latest run of a tool from its command line: [auto, ev, exit]
  dir,       \* the files of the session directory: name -> age (Absent when missing)
  quick,     \* what checkSessionForIssues returned last ("none" before any call)
  outputBuffer, \* the SafeOutputBuffer of the child's stdout
  errorBuffer,  \* the SafeOutputBuffer of the child's stderr
  stream,    \* the latest 'data' event of the child: [events, on, len, was, ret,
             \* written, killed]
  chainRun,  \* the run of cleanSessionChain: [st, files, log, successCount,
             \* errorCount]
  tail       \* how many of the records appended by the conversation process
             \* are in each file: [orig, backup, temp, total]

dataVars ==
  <<file, input, prev, backup, preclean, issues, rewrote, runs, tool, wlog, mid>>
lockVars == <<lockFile, pc, info, alive>>
txVars == <<orig, txBackup, txTemp, txLock, locked, txpc, pre, hist, opc>>
toolVars == <<cli, dir, quick>>
wrapVars == <<outputBuffer, errorBuffer, stream, chainRun, tail>>
vars == <<dataVars, lockVars, txVars, outOfTurn, toolVars, wrapVars>>

\* ------------------------------------------------------------------ bounds

MaxLen == 3
MaxRuns == 3
NProcs == 2
MaxContent == 2
MaxTxs == 2
MaxCliRuns == 1
MaxAge == 2
MaxChunk == 3
MaxEvents == 4
MaxFiles == 3
MaxAppends == 2

\* sizes are counted in units of 10 MB: MAX_OUTPUT_SIZE is 50 MB and
\* WARNING_THRESHOLD is 10 MB
MAX_OUTPUT_SIZE == 5
WARNING_THRESHOLD == 1

\* ------------------------------------------------------------- record model

NoId == ""

TextB(t) == [type |-> "text", id |-> NoId, is_error |-> FALSE, text |-> t]
UseB(i) == [type |-> "tool_use", id |-> i, is_error |-> FALSE, text |-> <<>>]
ResB(i) == [type |-> "tool_result", id |-> i, is_error |-> FALSE, text |-> <<>>]

\* a tool_result block whose content (the result payload) is the text t
ResultWith(i, t) == [type |-> "tool_result", id |-> i, is_error |-> FALSE, text |-> t]

PlainLine == [w |-> "plain", ids |-> {}, red |-> 0]
SyntheticPayload == [w |-> "synthetic", ids |-> {}, red |-> 0]

Msg(role, content) ==
  [fmt |-> "canon", k |-> "msg", role |-> role, content |-> content, summary |-> <<>>]
Summary(s) ==
  [fmt |-> "canon", k |-> "summary", role |-> "none", content |-> <<>>, summary |-> s]
Junk == [fmt |-> "canon", k |-> "junk", role |-> "none", content |-> <<>>, summary |-> <<>>]
Blank == [fmt |-> "canon", k |-> "blank", role |-> "none", content |-> <<>>, summary |-> <<>>]
Spaced(l) == [l EXCEPT !.fmt = "spaced"]

\* JSON.parse(line) succeeds
Parses(line) == line.k \notin {"junk", "blank"}

\* JSON.stringify(entry): the canonical text of the parsed value.  An entry is
\* represented by its canonical line.
JSONstringify(entry) == [entry EXCEPT !.fmt = "canon"]

\* JSON.parse(line), for a line that parses
JSONparse(line) == [line EXCEPT !.fmt = "canon"]

\* entry.message && entry.message.role === r && entry.message.content
IsMessageOf(entry, r) == entry.k = "msg" /\ entry.role = r

\* ---------------------------------------------------------- fix-session scan

EmptyMap == [keys |-> <<>>, use |-> [i \in {} |-> 0], res |-> [i \in {} |-> 0]]

MapHas(m, id) == id \in DOMAIN m.use

\* toolUseMap.set(content.id, { useLineNum: lineNum, resultLineNum: null })
MapSet(m, id, lineNum) ==
  [keys |-> IF MapHas(m, id) THEN m.keys ELSE Append(m.keys, id),
   use |-> [i \in DOMAIN m.use \cup {id} |-> IF i = id THEN lineNum ELSE m.use[i]],
   res |-> [i \in DOMAIN m.res \cup {id} |-> IF i = id THEN 0 ELSE m.res[i]]]

\* toolUse.resultLineNum = lineNum, when toolUseMap.get(id) exists
MapResult(m, id, lineNum) ==
  IF MapHas(m, id) THEN [m EXCEPT !.res[id] = lineNum] ELSE m

RECURSIVE TrackUses(_, _, _, _)
TrackUses(content, j, lineNum, m) ==
  IF j > Len(content) THEN m
  ELSE TrackUses(content, j + 1, lineNum,
         IF content[j].type = "tool_use" THEN MapSet(m, content[j].id, lineNum) ELSE m)

RECURSIVE TrackResults(_, _, _, _)
TrackResults(content, j, lineNum, m) ==
  IF j > Len(content) THEN m
  ELSE TrackResults(content, j + 1, lineNum,
         IF content[j].type = "tool_result" /\ content[j].id # NoId
           THEN MapResult(m, content[j].id, lineNum) ELSE m)

\* The read loop: s = [lines, map]; lines holds {lineNum, entry, raw} of the
\* lines that parsed, in order.
RECURSIVE ReadLoop(_, _, _)
ReadLoop(f, n, s) ==
  IF n > Len(f) THEN s
  ELSE IF ~Parses(f[n]) THEN ReadLoop(f, n + 1, s)
  ELSE LET entry == JSONparse(f[n])
           m1 == IF IsMessageOf(entry, "assistant")
                   THEN TrackUses(entry.content, 1, n, s.map) ELSE s.map
           m2 == IF IsMessageOf(entry, "user")
                   THEN TrackResults(entry.content, 1, n, m1) ELSE m1
       IN ReadLoop(f, n + 1,
            [lines |-> Append(s.lines, [lineNum |-> n, entry |-> entry, raw |-> f[n]]),
             map |-> m2])

Scan(f) == ReadLoop(f, 1, [lines |-> <<>>, map |-> EmptyMap])

\* Check for orphaned tool uses
RECURSIVE MissingIssues(_, _)
MissingIssues(m, j) ==
  IF j > Len(m.keys) THEN <<>>
  ELSE (IF m.res[m.keys[j]] = 0
          THEN <<[type |-> "missing_result", toolId |-> m.keys[j]]>> ELSE <<>>)
       \o MissingIssues(m, j + 1)

\* lines[i]?.entry has a message whose role is not 'user' (i is 0-based)
GapHit(lines, i) ==
  /\ i + 1 <= Len(lines)
  /\ lines[i + 1].entry.k = "msg"
  /\ lines[i + 1].entry.role # "user"

RECURSIVE GapIssues(_, _, _, _)
GapIssues(lines, id, i, last) ==
  IF i >= last THEN <<>>
  ELSE (IF GapHit(lines, i) THEN <<[type |-> "non_sequential", toolId |-> id]>> ELSE <<>>)
       \o GapIssues(lines, id, i + 1, last)

\* Check for non-sequential tool results
RECURSIVE NonSequentialIssues(_, _, _)
NonSequentialIssues(lines, m, j) ==
  IF j > Len(m.keys) THEN <<>>
  ELSE LET id == m.keys[j]
       IN (IF m.res[id] # 0 /\ m.res[id] # m.use[id] + 1
             THEN GapIssues(lines, id, m.use[id], m.res[id] - 1) ELSE <<>>)
          \o NonSequentialIssues(lines, m, j + 1)

Issues(s) == MissingIssues(s.map, 1) \o NonSequentialIssues(s.lines, s.map, 1)

\* ------------------------------------------------ fix-session createFixedSession

\* JSON.stringify(errorResult): role and content at the top level
SyntheticResult(id) ==
  [fmt |-> "canon", k |-> "bare", role |-> "user",
   content |-> <<[type |-> "tool_result", id |-> id, is_error |-> TRUE,
                  text |-> <<SyntheticPayload>>]>>,
   summary |-> <<>>]

\* The inner loop over the blocks of an assistant record: st = [out, done, has]
RECURSIVE FixUses(_, _, _, _, _, _)
FixUses(content, j, raw, lines, m, st) ==
  IF j > Len(content) THEN st
  ELSE LET c == content[j]
       IN IF c.type = "tool_use" /\ c.id \notin st.done
            THEN LET out1 == Append(st.out, raw)
                     out2 == IF MapHas(m, c.id) /\ m.res[c.id] # 0
                               THEN IF m.res[c.id] <= Len(lines)
                                      THEN Append(out1, lines[m.res[c.id]].raw)
                                      ELSE out1
                               ELSE Append(out1, SyntheticResult(c.id))
                 IN FixUses(content, j + 1, raw, lines, m,
                      [out |-> out2, done |-> st.done \cup {c.id}, has |-> TRUE])
            ELSE FixUses(content, j + 1, raw, lines, m, st)

IsProcessedToolResult(entry, done) ==
  /\ IsMessageOf(entry, "user")
  /\ \E j \in 1..Len(entry.content) :
       entry.content[j].type = "tool_result" /\ entry.content[j].id \in done

RECURSIVE FixLoop(_, _, _, _)
FixLoop(lines, i, m, st) ==
  IF i > Len(lines) THEN st.out
  ELSE LET entry == lines[i].entry
           raw == lines[i].raw
           s1 == IF IsMessageOf(entry, "assistant")
                   THEN FixUses(entry.content, 1, raw, lines, m,
                                [out |-> st.out, done |-> st.done, has |-> FALSE])
                   ELSE [out |-> st.out, done |-> st.done, has |-> FALSE]
           out2 == IF ~s1.has /\ ~IsProcessedToolResult(entry, s1.done)
                     THEN Append(s1.out, raw) ELSE s1.out
       IN FixLoop(lines, i + 1, m, [out |-> out2, done |-> s1.done])

FixedLines(s) == FixLoop(s.lines, 1, s.map, [out |-> <<>>, done |-> {}])

\* The log after fix-session --auto
FixSessionOutput(f) == IF Issues(Scan(f)) # <<>> THEN FixedLines(Scan(f)) ELSE f

NoFile == <<"none">>

\* ------------------------------------------------------- fix-session --auto

\* Whether the process holds the FileLock of sessionPath when it replaces the
\* log: fix-session.js and deep-clean-session.js never make a FileLock;
\* deep-clean-session-v2.js renames inside commit(), before lock.release().
LockHeldAtWrite(by) == by = "clean2"

WriteBy(by) == [by |-> by, locked |-> LockHeldAtWrite(by)]

\* One run of fixSession(sessionPath, true): scan, report, and when there are
\* issues createFixedSession: backup, write the fixed lines, rename.
FixSession ==
  /\ runs < MaxRuns
  /\ LET s == Scan(file)
     IN /\ issues' = Issues(s)
        /\ IF Issues(s) # <<>>
             THEN /\ backup' = file
                  /\ file' = FixedLines(s)
                  /\ rewrote' = TRUE
                  /\ wlog' = <<WriteBy("fix")>>
             ELSE /\ UNCHANGED <<file, backup>>
                  /\ rewrote' = FALSE
                  /\ wlog' = <<>>
  /\ prev' = file
  /\ runs' = runs + 1
  /\ tool' = "fix"
  /\ mid' = file
  /\ UNCHANGED <<input, preclean>>

\* ------------------------------------------------------------ deep cleaners

\* PROBLEMATIC_TOOL_IDS, in order
PROBLEMATIC_TOOL_IDS == <<"X", "Y">>

ErrLine(ids) == [w |-> "error", ids |-> ids, red |-> 0]
RefLine(ids) == [w |-> "plain", ids |-> ids, red |-> 0]
\* '[Line about tool error removed]'
RemovedLine == [w |-> "removed", ids |-> {}, red |-> 0]

\* text.toLowerCase() includes 'error', 'tool_use' or 'tool_result'
ErrorLikeCI(t) == \E j \in 1..Len(t) : t[j].w \in {"error", "Error", "removed"}
\* line.includes('error') || line.includes('tool_use') || line.includes('tool_result')
ErrorLineCS(l) == l.w \in {"error", "removed"}

\* text.includes(toolId)
TextIncludes(t, id) == \E j \in 1..Len(t) : id \in t[j].ids

\* lines.filter(line => !line.includes(toolId)), joined again
FilterLines(t, id) == SelectSeq(t, LAMBDA l : id \notin l.ids)

\* JSON.stringify(entry).includes(toolId)
EntryIncludes(entry, id) ==
  \/ \E j \in 1..Len(entry.content) :
       entry.content[j].id = id \/ TextIncludes(entry.content[j].text, id)
  \/ TextIncludes(entry.summary, id)

\* a check that would look at tool_use blocks only
IsProblematicUseOnly(entry, id) ==
  /\ IsMessageOf(entry, "assistant")
  /\ \E j \in 1..Len(entry.content) :
       entry.content[j].type = "tool_use" /\ entry.content[j].id = id

\* the two checks that open deepCleanEntry and preciselCleanEntry
IsProblematicBlockRecord(entry, id) ==
  \/ /\ IsMessageOf(entry, "assistant")
     /\ \E j \in 1..Len(entry.content) :
          entry.content[j].type = "tool_use" /\ entry.content[j].id = id
  \/ /\ IsMessageOf(entry, "user")
     /\ \E j \in 1..Len(entry.content) :
          entry.content[j].type = "tool_result" /\ entry.content[j].id = id

\* v1: the loop over cleanedEntry.message.content; a block whose text becomes
\* empty is spliced out
RECURSIVE CleanContentV1(_, _, _)
CleanContentV1(content, j, id) ==
  IF j > Len(content) THEN <<>>
  ELSE LET c == content[j]
           hit == c.type = "text" /\ c.text # <<>> /\ TextIncludes(c.text, id)
           t2 == FilterLines(c.text, id)
       IN (IF ~hit THEN <<c>>
           ELSE IF t2 = <<>> THEN <<>> ELSE <<[c EXCEPT !.text = t2]>>)
          \o CleanContentV1(content, j + 1, id)

deepCleanEntry(entry, id) ==
  IF IsProblematicBlockRecord(entry, id)
    THEN [removed |-> TRUE, cleaned |-> FALSE, entry |-> entry]
    ELSE LET c2 == IF entry.k = "msg" THEN CleanContentV1(entry.content, 1, id)
                   ELSE entry.content
             s2 == IF entry.k = "summary" /\ TextIncludes(entry.summary, id)
                     THEN FilterLines(entry.summary, id) ELSE entry.summary
         IN [removed |-> FALSE,
             cleaned |-> c2 # entry.content \/ s2 # entry.summary,
             entry |-> [entry EXCEPT !.content = c2, !.summary = s2]]

\* toolIdRegex.test(text) of the global regular expression, whose lastIndex li
\* persists between calls: the search starts after li; a match leaves
\* lastIndex at the match, a failure resets it to 0.  Offsets are counted in
\* lines.
RegexTest(t, id, li) ==
  LET hits == {j \in 1..Len(t) : id \in t[j].ids /\ j > li}
  IN IF hits = {} THEN [found |-> FALSE, li |-> 0]
     ELSE [found |-> TRUE, li |-> CHOOSE j \in hits : \A h \in hits : j <= h]

\* text.replace(toolIdRegex, '[REDACTED_TOOL_ID]')
Redact(t, id) ==
  [j \in 1..Len(t) |->
     IF id \in t[j].ids
       THEN [t[j] EXCEPT !.ids = @ \ {id}, !.red = @ + 1]
       ELSE t[j]]

\* v2: the loop over cleanedEntry.message.content; st = [out, li, cleaned]
RECURSIVE CleanContentV2(_, _, _, _)
CleanContentV2(content, j, id, st) ==
  IF j > Len(content) THEN st
  ELSE LET c == content[j]
           tested == c.type = "text" /\ c.text # <<>>
           r == RegexTest(c.text, id, st.li)
       IN IF ~tested
            THEN CleanContentV2(content, j + 1, id, [st EXCEPT !.out = Append(@, c)])
          ELSE IF ~r.found
            THEN CleanContentV2(content, j + 1, id,
                   [st EXCEPT !.out = Append(@, c), !.li = 0])
          ELSE IF ErrorLikeCI(c.text)
            THEN LET t2 == FilterLines(c.text, id)
                 IN CleanContentV2(content, j + 1, id,
                      [out |-> IF t2 = <<>> THEN st.out
                               ELSE Append(st.out, [c EXCEPT !.text = t2]),
                       li |-> r.li, cleaned |-> TRUE])
          ELSE CleanContentV2(content, j + 1, id,
                 [out |-> Append(st.out, [c EXCEPT !.text = Redact(c.text, id)]),
                  li |-> 0, cleaned |-> TRUE])

\* v2: the summary lines that mention the id and an error word are replaced
CleanSummaryV2(t, id) ==
  [j \in 1..Len(t) |->
     IF id \in t[j].ids /\ ErrorLineCS(t[j]) THEN RemovedLine ELSE t[j]]

preciselCleanEntry(entry, id) ==
  IF IsProblematicBlockRecord(entry, id)
    THEN [removed |-> TRUE, cleaned |-> FALSE, entry |-> entry]
    ELSE LET st == IF entry.k = "msg"
                     THEN CleanContentV2(entry.content, 1, id,
                            [out |-> <<>>, li |-> 0, cleaned |-> FALSE])
                     ELSE [out |-> entry.content, li |-> 0, cleaned |-> FALSE]
             sum == entry.k = "summary" /\ entry.summary # <<>>
                      /\ RegexTest(entry.summary, id, st.li).found
         IN [removed |-> FALSE,
             cleaned |-> st.cleaned \/ sum,
             entry |-> [entry EXCEPT !.content = st.out,
                          !.summary = IF sum THEN CleanSummaryV2(@, id) ELSE @]]

\* The loop over PROBLEMATIC_TOOL_IDS for one parsed entry; every id is
\* cleaned from the entry as parsed.  st = [remove, cleaned, entry]
RECURSIVE CleanIds(_, _, _, _)
CleanIds(entry, v, j, st) ==
  IF j > Len(PROBLEMATIC_TOOL_IDS) THEN st
  ELSE LET id == PROBLEMATIC_TOOL_IDS[j]
           skip == v = 1 /\ ~EntryIncludes(entry, id)
           r == IF v = 1 THEN deepCleanEntry(entry, id) ELSE preciselCleanEntry(entry, id)
       IN IF skip THEN CleanIds(entry, v, j + 1, st)
          ELSE IF r.removed THEN [st EXCEPT !.remove = TRUE]
          ELSE IF r.cleaned
            THEN CleanIds(entry, v, j + 1,
                   [st EXCEPT !.cleaned = @ + 1, !.entry = r.entry])
          ELSE CleanIds(entry, v, j + 1, st)

\* The read loop of deepCleanSession (v = 1: deep-clean-session.js, v = 2:
\* deep-clean-session-v2.js); s = [lines, removed, cleaned]
RECURSIVE CleanLoop(_, _, _, _)
CleanLoop(f, v, n, s) ==
  IF n > Len(f) THEN s
  ELSE IF f[n].k = "blank" THEN CleanLoop(f, v, n + 1, s)
  ELSE IF ~Parses(f[n])
    THEN CleanLoop(f, v, n + 1, [s EXCEPT !.lines = Append(@, f[n])])
  ELSE LET entry == JSONparse(f[n])
           r == CleanIds(entry, v, 1, [remove |-> FALSE, cleaned |-> 0, entry |-> entry])
       IN CleanLoop(f, v, n + 1,
            [lines |-> IF r.remove THEN s.lines
                       ELSE Append(s.lines, JSONstringify(r.entry)),
             removed |-> s.removed + (IF r.remove THEN 1 ELSE 0),
             cleaned |-> s.cleaned + r.cleaned])

Cleaned(f, v) == CleanLoop(f, v, 1, [lines |-> <<>>, removed |-> 0, cleaned |-> 0])

\* deepCleanSession(sessionPath, true) of deep-clean-session.js (v = 1) and of
\* deep-clean-session-v2.js (v = 2, its transaction taken as succeeding):
\* clean, replace the log, then run fix-session --auto on it.
DeepClean(v) ==
  /\ runs < MaxRuns
  /\ LET c == Cleaned(file, v)
         s == Scan(c.lines)
     IN IF c.removed > 0 \/ c.cleaned > 0
          THEN /\ preclean' = IF v = 1 THEN file ELSE preclean
               /\ issues' = Issues(s)
               /\ file' = IF Issues(s) # <<>> THEN FixedLines(s) ELSE c.lines
               /\ backup' = IF Issues(s) # <<>> THEN c.lines ELSE backup
               /\ rewrote' = TRUE
               /\ mid' = c.lines
               /\ wlog' = <<WriteBy(IF v = 1 THEN "clean1" ELSE "clean2")>>
                            \o (IF Issues(s) # <<>> THEN <<WriteBy("fix")>> ELSE <<>>)
          ELSE /\ UNCHANGED <<file, backup, preclean, issues>>
               /\ rewrote' = FALSE
               /\ mid' = file
               /\ wlog' = <<>>
  /\ prev' = file
  /\ runs' = runs + 1
  /\ tool' = IF v = 1 THEN "clean1" ELSE "clean2"
  /\ UNCHANGED input

DeepCleanV1 == DeepClean(1)
DeepCleanV2 == DeepClean(2)

\* ------------------------------------------------------------------ FileLock

Procs == 1..NProcs

NoLock == [st |-> "absent", owner |-> 0, old |-> FALSE]

\* acquire() is entered: startTime = Date.now()
AcquireCall(p) ==
  /\ alive[p]
  /\ pc[p] = "idle"
  /\ pc' = [pc EXCEPT ![p] = "try"]
  /\ UNCHANGED <<lockFile, info, alive>>

\* the while condition fails on a later iteration: the timeout has passed,
\* acquire() returns false
AcquireTimeout(p) ==
  /\ alive[p]
  /\ pc[p] = "retry"
  /\ pc' = [pc EXCEPT ![p] = "idle"]
  /\ UNCHANGED <<lockFile, info, alive>>

\* fs.openSync(lockPath, 'wx'): creates the file, or fails with EEXIST
AcquireOpen(p) ==
  /\ alive[p]
  /\ pc[p] \in {"try", "retry"}
  /\ IF lockFile.st = "absent"
       THEN /\ lockFile' = [st |-> "empty", owner |-> p, old |-> FALSE]
            /\ pc' = [pc EXCEPT ![p] = "write"]
       ELSE /\ pc' = [pc EXCEPT ![p] = "read"]
            /\ UNCHANGED lockFile
  /\ UNCHANGED <<info, alive>>

\* fs.writeSync(fd, {pid, lockId, timestamp}); closeSync; return true.  The
\* write goes to the file p created, which may no longer be the one at lockPath.
AcquireWrite(p) ==
  /\ alive[p]
  /\ pc[p] = "write"
  /\ lockFile' = IF lockFile.st = "empty" /\ lockFile.owner = p
                   THEN [st |-> "written", owner |-> p, old |-> FALSE]
                   ELSE lockFile
  /\ pc' = [pc EXCEPT ![p] = "holding"]
  /\ UNCHANGED <<info, alive>>

\* JSON.parse(fs.readFileSync(lockPath)): a missing or empty file throws
AcquireRead(p) ==
  /\ alive[p]
  /\ pc[p] = "read"
  /\ IF lockFile.st = "written"
       THEN /\ info' = [info EXCEPT ![p] = lockFile]
            /\ pc' = [pc EXCEPT ![p] = "check"]
       ELSE /\ pc' = [pc EXCEPT ![p] = "unlink"]
            /\ UNCHANGED info
  /\ UNCHANGED <<lockFile, alive>>

\* the lock read is eligible for removal: older than 30 seconds, or its
\* process does not exist
StaleByCode(i) == i.old \/ ~alive[i.owner]

\* lockAge > 30000, else process.kill(lockInfo.pid, 0); a live holder of a
\* young lock makes the acquirer sleep 100 ms and try again
AcquireCheck(p) ==
  /\ alive[p]
  /\ pc[p] = "check"
  /\ pc' = [pc EXCEPT ![p] = IF StaleByCode(info[p]) THEN "unlink" ELSE "retry"]
  /\ UNCHANGED <<lockFile, info, alive>>

\* fs.unlinkSync(lockPath): removes whatever is at lockPath now; a missing
\* file throws into the catch blocks and the loop goes on
AcquireUnlink(p) ==
  /\ alive[p]
  /\ pc[p] = "unlink"
  /\ lockFile' = NoLock
  /\ pc' = [pc EXCEPT ![p] = "retry"]
  /\ UNCHANGED <<info, alive>>

\* release(): read the lock file; go on to unlink only if the lockId is ours
ReleaseRead(p) ==
  /\ alive[p]
  /\ pc[p] = "holding"
  /\ pc' = [pc EXCEPT ![p] =
              IF lockFile.st = "written" /\ lockFile.owner = p THEN "rel_unlink" ELSE "idle"]
  /\ UNCHANGED <<lockFile, info, alive>>

ReleaseUnlink(p) ==
  /\ alive[p]
  /\ pc[p] = "rel_unlink"
  /\ lockFile' = NoLock
  /\ pc' = [pc EXCEPT ![p] = "idle"]
  /\ UNCHANGED <<info, alive>>

\* the process is killed while it holds the lock
Die(p) ==
  /\ alive[p]
  /\ pc[p] = "holding"
  /\ alive' = [alive EXCEPT ![p] = FALSE]
  /\ UNCHANGED <<lockFile, pc, info>>

\* more than 30 seconds pass since the timestamp in the lock file
Tick ==
  /\ lockFile.st = "written"
  /\ ~lockFile.old
  /\ lockFile' = [lockFile EXCEPT !.old = TRUE]
  /\ UNCHANGED <<pc, info, alive>>

InitLock ==
  /\ lockFile = NoLock
  /\ pc = [p \in Procs |-> "idle"]
  /\ info = [p \in Procs |-> NoLock]
  /\ alive = [p \in Procs |-> TRUE]

\* ----------------------------------------------------------- FileTransaction
\* Two processes run transactions on the same log path, so they share
\* originalPath + '.tx-backup', originalPath + '.tx-temp' and the lock file.
\* The first process is followed step by step; the second runs each of its
\* calls in one step.  txLock tells whose lock info is in the lock file and
\* whether its timestamp is more than 30 seconds old.

Absent == -1
Contents == 0..MaxContent

\* lock.acquire() succeeds at once on a free path, and after removing a lock
\* whose timestamp is older than 30 seconds
CanAcquire(l, other) == l \in {"none", other \o "_old"}

\* a release() that would leave the lock file in place
ReleasedNever(l, me) == l

\* lock.release(): the lock file is removed only if it holds the caller's lockId
Released(l, me) == IF l \in {me, me \o "_old"} THEN "none" ELSE l

\* what rollback() leaves at originalPath: the backup, if one exists
Restored(o, b) == IF b # Absent THEN b ELSE o

\* a begin() that would copy the backup before it knows it has the lock
BeginAcquireCopiesFirst ==
  /\ txpc = "idle"
  /\ hist.txs < MaxTxs
  /\ pre' = orig
  /\ hist' = [begun |-> FALSE, wrote |-> FALSE, txs |-> hist.txs + 1]
  /\ txBackup' = orig
  /\ \/ /\ CanAcquire(txLock, "other")
        /\ txLock' = "tx"
        /\ locked' = TRUE
        /\ txpc' = "locked"
     \/ /\ txLock = "other"
        /\ locked' = FALSE
        /\ txpc' = "error"
        /\ UNCHANGED txLock
  /\ UNCHANGED <<orig, txTemp, opc>>

\* begin(), first part: this.locked = await this.lock.acquire(); when the
\* other process holds a young lock the timeout passes and begin() throws
BeginAcquire ==
  /\ txpc = "idle"
  /\ hist.txs < MaxTxs
  /\ pre' = orig
  /\ hist' = [begun |-> FALSE, wrote |-> FALSE, txs |-> hist.txs + 1]
  /\ \/ /\ CanAcquire(txLock, "other")
        /\ txLock' = "tx"
        /\ locked' = TRUE
        /\ txpc' = "locked"
     \/ /\ txLock = "other"
        /\ locked' = FALSE
        /\ txpc' = "error"
        /\ UNCHANGED txLock
  /\ UNCHANGED <<orig, txBackup, txTemp, opc>>

\* fs.copyFileSync(originalPath, backupPath), which may throw
BeginBackup ==
  /\ txpc = "locked"
  /\ \/ /\ txBackup' = orig
        /\ txpc' = "backed"
     \/ /\ txpc' = "error"
        /\ UNCHANGED txBackup
  /\ UNCHANGED <<orig, txTemp, txLock, locked, pre, hist, opc>>

\* fs.copyFileSync(originalPath, tempPath), which may throw; begin() returns
BeginWorkingCopy ==
  /\ txpc = "backed"
  /\ \/ /\ txTemp' = orig
        /\ txpc' = "begun"
        /\ hist' = [hist EXCEPT !.begun = TRUE]
     \/ /\ txpc' = "error"
        /\ UNCHANGED <<txTemp, hist>>
  /\ UNCHANGED <<orig, txBackup, txLock, locked, pre, opc>>

\* the caller writes the working copy: fs.writeFileSync(tempPath, ...)
WriteWorking ==
  /\ txpc = "begun"
  /\ \E c \in Contents : txTemp' = c
  /\ hist' = [hist EXCEPT !.wrote = TRUE]
  /\ UNCHANGED <<orig, txBackup, txLock, locked, txpc, pre, opc>>

\* the caller throws between begin() and commit()
Fail ==
  /\ txpc = "begun"
  /\ txpc' = "error"
  /\ UNCHANGED <<orig, txBackup, txTemp, txLock, locked, pre, hist, opc>>

\* a commit() that would leave the backup file behind
CommitKeepsBackup ==
  /\ txpc = "begun"
  /\ locked
  /\ \/ /\ txTemp # Absent
        /\ orig' = txTemp
        /\ txTemp' = Absent
        /\ txLock' = Released(txLock, "tx")
        /\ locked' = FALSE
        /\ txpc' = "committed"
        /\ UNCHANGED txBackup
     \/ /\ txpc' = "error"
        /\ UNCHANGED <<orig, txTemp, txBackup, txLock, locked>>
  /\ UNCHANGED <<pre, hist, opc>>

\* commit(): rename tempPath onto originalPath (which throws when tempPath is
\* missing or the rename fails), unlink the backup, release the lock
Commit ==
  /\ txpc = "begun"
  /\ locked
  /\ \/ /\ txTemp # Absent
        /\ orig' = txTemp
        /\ txTemp' = Absent
        /\ txBackup' = Absent
        /\ txLock' = Released(txLock, "tx")
        /\ locked' = FALSE
        /\ txpc' = "committed"
     \/ /\ txpc' = "error"
        /\ UNCHANGED <<orig, txTemp, txBackup, txLock, locked>>
  /\ UNCHANGED <<pre, hist, opc>>

\* a rollback() that would leave the working file on disk
RollbackKeepsTemp ==
  /\ txpc \in {"begun", "error"}
  /\ IF ~locked
       THEN UNCHANGED <<orig, txBackup, txTemp, txLock, locked>>
       ELSE /\ orig' = Restored(orig, txBackup)
            /\ txBackup' = Absent
            /\ txLock' = Released(txLock, "tx")
            /\ locked' = FALSE
            /\ UNCHANGED txTemp
  /\ txpc' = "rolledback"
  /\ UNCHANGED <<pre, hist, opc>>

\* rollback(), called by the caller's catch block, or when the user declines
\* or nothing was found
Rollback ==
  /\ txpc \in {"begun", "error"}
  /\ IF ~locked
       THEN UNCHANGED <<orig, txBackup, txTemp, txLock, locked>>
       ELSE /\ orig' = Restored(orig, txBackup)
            /\ txBackup' = Absent
            /\ txTemp' = Absent
            /\ txLock' = Released(txLock, "tx")
            /\ locked' = FALSE
  /\ txpc' = "rolledback"
  /\ UNCHANGED <<pre, hist, opc>>

\* the next run makes a new FileTransaction object
NewTransaction ==
  /\ txpc \in {"committed", "rolledback"}
  /\ txpc' = "idle"
  /\ UNCHANGED <<orig, txBackup, txTemp, txLock, locked, pre, hist, opc>>

\* the other process: begin()
OtherBegin ==
  /\ opc = "idle"
  /\ CanAcquire(txLock, "tx")
  /\ txLock' = "other"
  /\ txBackup' = orig
  /\ txTemp' = orig
  /\ opc' = "begun"
  /\ UNCHANGED <<orig, locked, txpc, pre, hist>>

\* the other process: writeFileSync(tempPath, ...) and commit()
OtherCommit ==
  /\ opc = "begun"
  /\ \E c \in Contents : orig' = c
  /\ txTemp' = Absent
  /\ txBackup' = Absent
  /\ txLock' = Released(txLock, "other")
  /\ opc' = "idle"
  /\ UNCHANGED <<locked, txpc, pre, hist>>

\* the other process: rollback()
OtherRollback ==
  /\ opc = "begun"
  /\ orig' = Restored(orig, txBackup)
  /\ txBackup' = Absent
  /\ txTemp' = Absent
  /\ txLock' = Released(txLock, "other")
  /\ opc' = "idle"
  /\ UNCHANGED <<locked, txpc, pre, hist>>

\* more than 30 seconds pass since the timestamp in the lock file, for
\* example while the holder waits at the confirmation prompt
LockAges ==
  /\ txLock \in {"tx", "other"}
  /\ txLock' = txLock \o "_old"
  /\ UNCHANGED <<orig, txBackup, txTemp, locked, txpc, pre, hist, opc>>

\* commit() called when begin() has not completed: before begin(), after a
\* begin() that threw, or after commit() or rollback().  Only this.locked is
\* tested; with this.locked still true (begin() threw in one of its copies)
\* the rename is made, and throws when there is no file at tempPath.
CommitOutOfTurn ==
  /\ txpc \in {"idle", "error", "committed", "rolledback"}
  /\ IF ~locked
       THEN /\ outOfTurn' = "commit: Transaction not started"
            /\ UNCHANGED <<orig, txBackup, txTemp, txLock, locked, txpc>>
       ELSE IF txTemp = Absent
         THEN /\ outOfTurn' = "commit: rename threw"
              /\ UNCHANGED <<orig, txBackup, txTemp, txLock, locked, txpc>>
         ELSE /\ outOfTurn' = "commit: done"
              /\ orig' = txTemp
              /\ txTemp' = Absent
              /\ txBackup' = Absent
              /\ txLock' = Released(txLock, "tx")
              /\ locked' = FALSE
              /\ txpc' = "committed"
  /\ UNCHANGED <<pre, hist, opc>>

\* a rollback() that would not test this.locked
RollbackEffectUnguarded(o, b, t, l, lk) ==
  <<Restored(o, b), Absent, Absent, Released(l, "tx"), FALSE>>

\* what rollback() does to <<original, backup, working, lock, this.locked>>
RollbackEffect(o, b, t, l, lk) ==
  IF ~lk THEN <<o, b, t, l, lk>>
  ELSE <<Restored(o, b), Absent, Absent, Released(l, "tx"), FALSE>>

\* rollback() called with no transaction open: never begun, already
\* committed, already rolled back
RollbackOutOfTurn ==
  /\ txpc \in {"idle", "committed", "rolledback"}
  /\ LET e == RollbackEffect(orig, txBackup, txTemp, txLock, locked)
     IN /\ orig' = e[1]
        /\ txBackup' = e[2]
        /\ txTemp' = e[3]
        /\ txLock' = e[4]
        /\ locked' = e[5]
  /\ outOfTurn' = "rollback: returned"
  /\ UNCHANGED <<txpc, pre, hist, opc>>

\* .tx-backup and .tx-temp may be left over from a run that was killed
InitTx ==
  /\ orig \in Contents
  /\ txBackup \in {Absent} \cup Contents
  /\ txTemp \in {Absent} \cup Contents
  /\ txLock = "none"
  /\ locked = FALSE
  /\ txpc = "idle"
  /\ pre = orig
  /\ hist = [begun |-> FALSE, wrote |-> FALSE, txs |-> 0]
  /\ opc = "idle"
  /\ outOfTurn = "none"

\* no transaction in the specifications of the repair tools and of the lock
InitTxIdle ==
  /\ orig = 0
  /\ txBackup = Absent
  /\ txTemp = Absent
  /\ txLock = "none"
  /\ locked = FALSE
  /\ txpc = "idle"
  /\ pre = 0
  /\ hist = [begun |-> FALSE, wrote |-> FALSE, txs |-> 0]
  /\ opc = "idle"
  /\ outOfTurn = "none"

\* ------------------------------------------------------------- input logs

\* the names of the files of a session directory, by what they are
DirNames ==
  {"s.jsonl", "s.jsonl.lock", "s.jsonl.tx-temp", "s.jsonl.tx-backup",
   "s.jsonl.backup", "s.jsonl.pre-deep-clean"}

\* no tool has run from its command line
NoRun == [auto |-> TRUE, ev |-> <<>>, exit |-> 0]

\* new SafeOutputBuffer(maxSize): the constructor
NewBuffer(maxSize) ==
  [chunks |-> <<>>, totalSize |-> 0, maxSize |-> maxSize,
   truncated |-> FALSE, warningShown |-> FALSE]

\* the child has emitted no data
NoEvent ==
  [events |-> 0, on |-> "none", len |-> 0, was |-> FALSE, ret |-> TRUE,
   written |-> 0, killed |-> FALSE]

\* cleanSessionChain has not been called
NoChain ==
  [st |-> "idle", files |-> <<>>, log |-> <<>>, successCount |-> 0,
   errorCount |-> 0]

\* the conversation process has appended nothing
NoTail == [orig |-> 0, backup |-> 0, temp |-> 0, total |-> 0]

InitWrap ==
  /\ outputBuffer = NewBuffer(MAX_OUTPUT_SIZE)
  /\ errorBuffer = NewBuffer(MAX_OUTPUT_SIZE)
  /\ stream = NoEvent
  /\ chainRun = NoChain
  /\ tail = NoTail

InitTools ==
  /\ cli = NoRun
  /\ dir = [n \in DirNames |-> Absent]
  /\ quick = "none"
  /\ InitWrap

FixIds == {"t1", "t2"}

FixLineUniverse ==
  { Junk,
    Summary(<<PlainLine>>),
    Spaced(Summary(<<PlainLine>>)),
    Msg("system", <<>>),
    Msg("assistant", <<TextB(<<PlainLine>>)>>),
    Msg("user", <<TextB(<<PlainLine>>)>>),
    Msg("assistant", <<UseB("t1")>>),
    Msg("assistant", <<UseB("t2")>>),
    Msg("assistant", <<UseB("t1"), UseB("t2")>>),
    Msg("user", <<ResB("t1")>>),
    Msg("user", <<ResB("t2")>>),
    Msg("user", <<ResB("t1"), ResB("t2")>>) }

SeqsUpTo(S, n) == UNION {[1..k -> S] : k \in 0..n}

UsesOf(line) ==
  {line.content[j].id : j \in {x \in 1..Len(line.content) : line.content[x].type = "tool_use"}}
ResultsOf(line) ==
  {line.content[j].id : j \in {x \in 1..Len(line.content) : line.content[x].type = "tool_result"}}

\* toolId is unique within a log: no id is used by two tool_use records
UniqueUses(f) ==
  \A a, b \in 1..Len(f) : a # b => UsesOf(f[a]) \cap UsesOf(f[b]) = {}

FixLogs == {f \in SeqsUpTo(FixLineUniverse, MaxLen) : UniqueUses(f)}

InitFix ==
  /\ InitLock
  /\ InitTxIdle
  /\ file \in FixLogs
  /\ input = file
  /\ prev = file
  /\ backup = NoFile
  /\ preclean = NoFile
  /\ issues = <<>>
  /\ rewrote = FALSE
  /\ runs = 0
  /\ tool = "none"
  /\ wlog = <<>>
  /\ mid = file
  /\ InitTools

NextFix == FixSession /\ UNCHANGED <<lockVars, txVars, outOfTurn, toolVars, wrapVars>>

SpecFix == InitFix /\ [][NextFix]_vars

CleanLineUniverse ==
  { Junk,
    Blank,
    Spaced(Summary(<<PlainLine>>)),
    Summary(<<ErrLine({"X"}), PlainLine>>),
    Summary(<<RefLine({"X"}), PlainLine>>),
    Msg("assistant", <<TextB(<<PlainLine, RefLine({"X"})>>)>>),
    Msg("user", <<TextB(<<ErrLine({"X"}), ErrLine({"Y"})>>)>>),
    Msg("assistant", <<UseB("X")>>),
    Msg("assistant", <<UseB("X"), UseB("t1")>>),
    Msg("assistant", <<UseB("t1")>>),
    Msg("user", <<ResB("X")>>),
    Msg("user", <<ResB("t1")>>),
    Msg("user", <<ResultWith("t1", <<RefLine({"X"})>>)>>),
    Msg("user", <<TextB(<<ErrLine({"X"})>>)>>),
    Msg("assistant", <<TextB(<<ErrLine({"X"})>>), TextB(<<ErrLine({"X"}), PlainLine>>)>>) }

CleanLogs == {f \in SeqsUpTo(CleanLineUniverse, MaxLen) : UniqueUses(f)}

InitClean ==
  /\ InitLock
  /\ InitTxIdle
  /\ file \in CleanLogs
  /\ input = file
  /\ prev = file
  /\ backup = NoFile
  /\ preclean = NoFile
  /\ issues = <<>>
  /\ rewrote = FALSE
  /\ runs = 0
  /\ tool = "none"
  /\ wlog = <<>>
  /\ mid = file
  /\ InitTools

RepairFrame == UNCHANGED <<lockVars, txVars, outOfTurn, toolVars, wrapVars>>

NextClean ==
  \/ DeepCleanV1 /\ RepairFrame
  \/ DeepCleanV2 /\ RepairFrame
  \/ FixSession /\ RepairFrame

SpecClean == InitClean /\ [][NextClean]_vars

\* FileLock alone: NProcs processes acquire and release one lock path
InitData ==
  /\ file = <<>>
  /\ input = <<>>
  /\ prev = <<>>
  /\ backup = NoFile
  /\ preclean = NoFile
  /\ issues = <<>>
  /\ rewrote = FALSE
  /\ runs = 0
  /\ tool = "none"
  /\ wlog = <<>>
  /\ mid = file
  /\ InitTools

InitLockSpec == InitData /\ InitLock /\ InitTxIdle

LockFrame == UNCHANGED <<dataVars, txVars, outOfTurn, toolVars, wrapVars>>

NextLock ==
  \/ \E p \in Procs : AcquireCall(p) /\ LockFrame
  \/ \E p \in Procs : AcquireTimeout(p) /\ LockFrame
  \/ \E p \in Procs : AcquireOpen(p) /\ LockFrame
  \/ \E p \in Procs : AcquireWrite(p) /\ LockFrame
  \/ \E p \in Procs : AcquireRead(p) /\ LockFrame
  \/ \E p \in Procs : AcquireCheck(p) /\ LockFrame
  \/ \E p \in Procs : AcquireUnlink(p) /\ LockFrame
  \/ \E p \in Procs : ReleaseRead(p) /\ LockFrame
  \/ \E p \in Procs : ReleaseUnlink(p) /\ LockFrame
  \/ \E p \in Procs : Die(p) /\ LockFrame
  \/ Tick /\ LockFrame

SpecLock == InitLockSpec /\ [][NextLock]_vars

\* FileTransaction alone: one process runs transactions on a log that no
\* other process writes
InitTxSpec == InitData /\ InitLock /\ InitTx

TxFrame == UNCHANGED <<dataVars, lockVars, outOfTurn, toolVars, wrapVars>>

NextTx ==
  \/ BeginAcquire /\ TxFrame
  \/ BeginBackup /\ TxFrame
  \/ BeginWorkingCopy /\ TxFrame
  \/ WriteWorking /\ TxFrame
  \/ Fail /\ TxFrame
  \/ Commit /\ TxFrame
  \/ Rollback /\ TxFrame
  \/ NewTransaction /\ TxFrame
  \/ OtherBegin /\ TxFrame
  \/ OtherCommit /\ TxFrame
  \/ OtherRollback /\ TxFrame
  \/ LockAges /\ TxFrame

SpecTx == InitTxSpec /\ [][NextTx]_vars

\* ======================================================================
\* Claims
\* ======================================================================

\* the record holds a tool_result block for id, with or without the message
\* wrapper
HoldsResultFor(line, id) ==
  /\ line.k \in {"msg", "bare"}
  /\ \E j \in 1..Len(line.content) :
       line.content[j].type = "tool_result" /\ line.content[j].id = id

\* every tool_result has an earlier tool_use with the same id
NoDangling(f) ==
  \A j \in 1..Len(f) : \A id \in ResultsOf(f[j]) :
    \E i \in 1..(j - 1) : id \in UsesOf(f[i])

Adjacent(f) ==
  \A i \in 1..Len(f) : \A id \in UsesOf(f[i]) :
    i + 1 <= Len(f) /\ HoldsResultFor(f[i + 1], id)

\* C1: after createFixedSession has rewritten a log, every record that
\* contains a tool_use block with id t is directly followed by a record that
\* contains a tool_result block for t.
C1_AdjacencyAfterFix == (tool = "fix" /\ rewrote) => Adjacent(file)

\* C4: a second run of fix-session --auto on the output of a first run
\* leaves the log identical and its scan reports zero issues.
C4_Idempotent == (tool = "fix" /\ runs = 2) => (file = prev /\ issues = <<>>)

UsePositions(f, id) == {i \in 1..Len(f) : f[i].k = "msg" /\ id \in UsesOf(f[i])}
ResultPositions(f, id) ==
  {i \in 1..Len(f) : f[i].k = "msg" /\ f[i].role = "user" /\ id \in ResultsOf(f[i])}
UsedIds(f) == UNION {UsesOf(f[i]) : i \in {x \in 1..Len(f) : f[x].k = "msg"}}

HasIssue(iss, type, id) ==
  \E j \in 1..Len(iss) : iss[j].type = type /\ iss[j].toolId = id

\* a genuine result record: a message with role 'user' and one tool_result
\* block for id, flagged as an error
IsErrorResultRecord(line, id) ==
  /\ line.k = "msg"
  /\ line.role = "user"
  /\ Len(line.content) = 1
  /\ line.content[1].type = "tool_result"
  /\ line.content[1].id = id
  /\ line.content[1].is_error

\* C5: for every tool_use id that has no tool_result anywhere in the log,
\* the repair puts directly after the record of the tool_use one record of
\* the shape of a genuine result record (message, role 'user') with a single
\* tool_result block for that id and is_error = true, and a following scan
\* reports no missing result for the id.
C5_SyntheticResult ==
  (tool = "fix" /\ runs = 1 /\ rewrote) =>
    \A id \in UsedIds(input) :
      ResultPositions(input, id) = {} =>
        /\ \A i \in UsePositions(file, id) :
             i + 1 <= Len(file) /\ IsErrorResultRecord(file[i + 1], id)
        /\ ~HasIssue(Issues(Scan(file)), "missing_result", id)

\* C6: the scan reports no issue for a tool_use id only if its result is in
\* the record directly after the tool_use record, a non-sequential issue
\* whenever the result exists at another position, and a missing-result
\* issue exactly when no result exists anywhere.  (issues is the report of
\* the scan of prev; stated for logs in which every result follows its use.)
C6_ScannerClassification ==
  (tool = "fix" /\ runs >= 1 /\ NoDangling(prev)) =>
    \A id \in UsedIds(prev) :
      LET adjacent == \E u \in UsePositions(prev, id) : u + 1 \in ResultPositions(prev, id)
          exists == ResultPositions(prev, id) # {}
      IN /\ (~HasIssue(issues, "missing_result", id)
               /\ ~HasIssue(issues, "non_sequential", id)) => adjacent
         /\ (exists /\ ~adjacent) => HasIssue(issues, "non_sequential", id)
         /\ HasIssue(issues, "missing_result", id) <=> ~exists

UnparsedLines(f) == SelectSeq(f, LAMBDA l : l.k = "junk")

\* a record no repair action can touch: it parses, mentions no deny-listed
\* id and carries no tool block (so it is neither dropped, cleaned nor moved)
Untouchable(line) ==
  /\ Parses(line)
  /\ \A j \in 1..Len(PROBLEMATIC_TOOL_IDS) : ~EntryIncludes(line, PROBLEMATIC_TOOL_IDS[j])
  /\ UsesOf(line) = {} /\ ResultsOf(line) = {}

\* C8: every record that no repair action touches is written to the
\* repaired file byte-identical to its original line.
C8_ContentPreserved ==
  rewrote => \A i \in 1..Len(prev) :
    Untouchable(prev[i]) => \E j \in 1..Len(file) : file[j] = prev[i]

\* C9: if every tool_result of the input log has an earlier tool_use with
\* the same id, the same holds of the output of every repair.
C9_NoDanglingIntroduced == NoDangling(input) => NoDangling(file)

\* C7: a line that fails to parse as JSON is kept unchanged in the repaired
\* output, in order.
C7_UnparsableKept == rewrote => UnparsedLines(file) = UnparsedLines(prev)

\* the processes for which acquire() has returned true and release() has not
\* been called
Holders == {p \in Procs : alive[p] /\ pc[p] = "holding"}

\* C2: mutual exclusion of FileLock.  For one lock path at most one process
\* at a time is between acquire() returning true and its call of release(),
\* under every interleaving of the exclusive create, the write of the lock
\* info, the read of the lock info and the unlink.
C2_MutualExclusion == Cardinality(Holders) <= 1

\* a process in acquire() unlinks the lock file of another process, having
\* read and examined the lock info that is in it
RemovesLockOfOther(p) ==
  /\ pc[p] = "unlink"
  /\ pc'[p] = "retry"
  /\ lockFile.st = "written"
  /\ lockFile.owner # p
  /\ info[p] = lockFile
  /\ lockFile'.st = "absent"

\* C10: stale-lock policy.  A waiting acquirer removes an existing lock only
\* when the lock is older than 30 seconds and its holder process has been
\* found not alive; so the lock of a holder that is still alive is never
\* removed by another process, however long the holder keeps it.
C10_StaleLockPolicy ==
  [][\A p \in Procs : RemovesLockOfOther(p) => ~alive[lockFile.owner]]_vars

\* C3: rollback atomicity.  When a transaction fails after begin() completed
\* and before commit() completed, then rollback() leaves the original file
\* with the content it had immediately before begin() was called.
C3_RollbackAtomicity ==
  [][(Rollback /\ hist.begun) => orig' = pre]_vars

\* C11: only the lock holder writes the log.  Every write, copy-over or
\* rename onto the log path made by a repair tool (fix-session, deep-clean
\* v1, deep-clean v2 and the standard repair it starts after commit) is made
\* while the writing process holds the FileLock of that path.
C11_WritesUnderLock == \A j \in 1..Len(wlog) : wlog[j].locked

\* begin() gives up: lock.acquire() returned false and begin() throws
BeginTimesOut == txpc = "idle" /\ txpc' = "error"

\* the caller's catch block calls rollback() after such a begin()
RollbackAfterTimeout == txpc = "error" /\ ~locked /\ txpc' = "rolledback"

\* C12: a lock timeout leaves everything untouched.  When the lock cannot be
\* acquired within the timeout, begin() throws, the transaction is not
\* locked, the backup path and the working path are not created and the
\* original log is unchanged, also by the rollback() the caller then makes.
C12_TimeoutTouchesNothing ==
  [][(BeginTimesOut \/ RollbackAfterTimeout) =>
       (~locked' /\ orig' = orig /\ txBackup' = txBackup /\ txTemp' = txTemp)]_vars

\* begin() has timed out on the lock of the other process, with no backup
\* and no working file on disk
C12_Witness ==
  txpc = "error" /\ ~locked /\ txLock = "other"
    /\ txBackup = Absent /\ txTemp = Absent /\ hist.txs >= 1

\* C13: a failure during a transaction preserves the original.  When a step
\* of begin() (backup copy, working copy) or of commit() (rename) has
\* failed, the rollback() that the caller's catch block runs leaves the
\* original log with the content it had before begin() was called.
C13_FailurePreservesOriginal ==
  [][(Rollback /\ txpc = "error" /\ locked) => orig' = pre]_vars

\* FileTransaction with the progress the code has while its process is not
\* killed: begin() goes on from the lock to the two copies, and the caller
\* (deepCleanSession of v2) answers every open transaction with commit() or
\* rollback(): the prompt is answered, and every exception lands in the
\* catch block that calls rollback().
SpecTxFair ==
  /\ InitTxSpec
  /\ [][NextTx]_vars
  /\ WF_vars(BeginBackup /\ TxFrame)
  /\ WF_vars(BeginWorkingCopy /\ TxFrame)
  /\ WF_vars((Commit \/ Rollback) /\ TxFrame)

\* the transaction is over and its lock file is gone
Resolved ==
  /\ txpc \in {"committed", "rolledback"}
  /\ ~locked
  /\ txLock \notin {"tx", "tx_old"}

\* C14: every opened transaction is resolved.  A run that has acquired the
\* lock eventually reaches commit() or rollback() and releases the lock, on
\* every path that does not kill the process.
C14_TransactionResolved == (txpc = "locked") ~> Resolved

\* a transaction that wrote its working copy was committed and has released
\* its lock
C14_Witness == txpc = "committed" /\ hist.wrote /\ Resolved

\* FileTransaction driven by any caller: besides the calls deepCleanSession
\* makes, commit() and rollback() may be called when no transaction is open
ApiFrame == UNCHANGED <<dataVars, lockVars, toolVars, wrapVars>>

NextTxApi ==
  \/ NextTx
  \/ CommitOutOfTurn /\ ApiFrame
  \/ RollbackOutOfTurn /\ ApiFrame

SpecTxApi == InitTxSpec /\ [][NextTxApi]_vars

\* C15: transaction state machine.  commit() succeeds only after a begin()
\* that completed both copies; called before begin(), after a begin() that
\* failed, or after the transaction was committed or rolled back, commit()
\* does not succeed and changes no file.
C15_CommitOnlyAfterBegin ==
  [][/\ (txpc' = "committed" /\ txpc # "committed") => txpc = "begun"
     /\ CommitOutOfTurn =>
          (txpc' # "committed" /\ orig' = orig /\ txBackup' = txBackup
             /\ txTemp' = txTemp)]_vars

\* C16: the original is untouched between begin and commit.  After a
\* successful begin() the backup path and the working path hold the content
\* the original had at begin; until commit() only the working path is
\* written, so the original and the backup keep that content in every state
\* between begin() and commit().
C16_OriginalUntouched ==
  txpc = "begun" =>
    /\ orig = pre
    /\ txBackup = pre
    /\ ~hist.wrote => txTemp = pre

\* commit() returns normally
CommitReturns == txpc = "begun" /\ txpc' = "committed"

\* C17: commit effect.  After commit() returns the original path holds the
\* content the working path had when commit() was called, the working path
\* and the backup path no longer exist, the lock file of this transaction is
\* gone and the transaction is not locked.
C17_CommitEffect ==
  [][CommitReturns =>
       /\ orig' = txTemp
       /\ txTemp' = Absent
       /\ txBackup' = Absent
       /\ ~locked'
       /\ txLock' \notin {"tx", "tx_old"}]_vars

\* a commit has installed a working copy that the caller had written and
\* that differs from the content before begin()
C17_Witness ==
  /\ txpc = "committed"
  /\ hist.begun /\ hist.wrote
  /\ orig # pre
  /\ txTemp = Absent /\ txBackup = Absent
  /\ opc = "idle" /\ txLock = "none"

\* C18: rollback is idempotent and safe without a transaction.  rollback()
\* called when no transaction is open (never begun, already committed,
\* already rolled back, so also a second rollback() in a row) returns
\* without throwing, changes no file and removes no lock file.
C18_RollbackWithoutTransaction ==
  [][RollbackOutOfTurn =>
       /\ outOfTurn' = "rollback: returned"
       /\ orig' = orig
       /\ txBackup' = txBackup
       /\ txTemp' = txTemp
       /\ txLock' = txLock
       /\ locked' = locked]_vars

\* a second rollback() was made after the transaction was rolled back, while
\* the other process holds the lock and has its backup on disk
C18_Witness ==
  /\ outOfTurn = "rollback: returned"
  /\ txpc = "rolledback"
  /\ txLock = "other"
  /\ txBackup # Absent
  /\ opc = "begun"

\* the records that a repair does not move: the parsed records that hold no
\* tool_result block (synthetic results are new records and hold one)
NonMoved(f) ==
  SelectSeq(f, LAMBDA l : Parses(l) /\ ResultsOf(l) = {})

\* C19: a move keeps order.  A repair changes the position of records that
\* hold a matching tool_result only; all other records are in the repaired
\* log in the order they had, for any number of repairs of the same log.
\* (Stated for logs in which every tool_use has its result somewhere after
\* it, so that every repair is a move.)
C19_MoveKeepsOrder ==
  (/\ tool = "fix"
   /\ rewrote
   /\ NoDangling(prev)
   /\ \A id \in UsedIds(prev) : ResultPositions(prev, id) # {})
    => NonMoved(file) = NonMoved(prev)

\* the records of a log: its lines that are not blank
Records(f) == SelectSeq(f, LAMBDA l : l.k # "blank")

\* f without its i-th element
DropAt(f, i) == [j \in 1..(Len(f) - 1) |-> IF j < i THEN f[j] ELSE f[j + 1]]

\* the record holds a tool_use or tool_result block with a deny-listed id
HoldsDeniedBlock(l) ==
  /\ Parses(l)
  /\ \E j \in 1..Len(PROBLEMATIC_TOOL_IDS) :
       PROBLEMATIC_TOOL_IDS[j] \in UsesOf(l) \cup ResultsOf(l)

DeniedRecords(f) == {i \in 1..Len(f) : HoldsDeniedBlock(f[i])}

\* b is the record a as the cleaner writes it when it keeps it: the same
\* value, or, when a mentions a deny-listed id in its text, the same kind of
\* record with cleaned text
KeptAs(a, b) ==
  IF Parses(a) /\ \E j \in 1..Len(PROBLEMATIC_TOOL_IDS) :
                    EntryIncludes(a, PROBLEMATIC_TOOL_IDS[j])
    THEN b.k = a.k /\ b.role = a.role
    ELSE IF Parses(a) THEN JSONparse(b) = JSONparse(a) ELSE b = a

\* C20: record drop for a deny-listed block.  When exactly one record of the
\* log holds a tool_use or tool_result block with a deny-listed id, the
\* output of the cleaner is the input with exactly that record removed: one
\* record less, and every other record kept in its place.  A record counts
\* whether or not it has the message wrapper: the synthetic result that
\* fix-session writes (part_004 258-268) holds its tool_result block at the
\* top level, and the cleaners test entry.message before they look for blocks.
C20_ExactlyOneRecordDropped ==
  (tool \in {"clean1", "clean2"} /\ Cardinality(DeniedRecords(Records(prev))) = 1) =>
    LET in == Records(prev)
        i == CHOOSE x \in DeniedRecords(in) : TRUE
        kept == DropAt(in, i)
        out == Records(mid)
    IN /\ Len(out) = Len(in) - 1
       /\ \A j \in 1..Len(kept) : KeptAs(kept[j], out[j])

\* the cleaner of v2 has dropped the one record with a deny-listed block
\* from a log of three records
C20_Witness ==
  /\ tool = "clean2"
  /\ Len(Records(prev)) = 3
  /\ Cardinality(DeniedRecords(Records(prev))) = 1
  /\ Len(mid) = 2

\* the deny-listed ids that the text of the line contains
DeniedIdsIn(line) ==
  {PROBLEMATIC_TOOL_IDS[j] : j \in {x \in 1..Len(PROBLEMATIC_TOOL_IDS) :
      Parses(line) /\ EntryIncludes(line, PROBLEMATIC_TOOL_IDS[x])}}

\* C21: after a deep cleaner has applied its changes, no line of the output
\* file contains a deny-listed tool id, wherever the id was in the input
\* (tool block, text block, summary, payload of a block of another tool).
C21_AllReferencesRemoved ==
  (tool \in {"clean1", "clean2"} /\ rewrote) =>
    \A i \in 1..Len(file) : DeniedIdsIn(file[i]) = {}

\* the cleaner drops the record: one of its blocks is a tool_use or
\* tool_result with a deny-listed id
DroppedByCleaner(l) ==
  /\ Parses(l)
  /\ \E j \in 1..Len(PROBLEMATIC_TOOL_IDS) :
       IsProblematicBlockRecord(JSONparse(l), PROBLEMATIC_TOOL_IDS[j])

\* the records of f that the cleaner keeps
KeptRecords(f) == SelectSeq(Records(f), LAMBDA l : ~DroppedByCleaner(l))

\* what v2 is to make of a text that mentions id: the lines with the id are
\* removed from a text about an error, the id is replaced by the placeholder
\* elsewhere
TextHandled(t, id) ==
  IF ~TextIncludes(t, id) THEN t
  ELSE IF ErrorLikeCI(t) THEN FilterLines(t, id)
  ELSE Redact(t, id)

\* the content blocks with every text block handled; a text block that has
\* become empty is removed
RECURSIVE BlocksHandled(_, _, _)
BlocksHandled(content, j, id) ==
  IF j > Len(content) THEN <<>>
  ELSE LET c == content[j]
           t2 == TextHandled(c.text, id)
       IN (IF c.type # "text" \/ ~TextIncludes(c.text, id) THEN <<c>>
           ELSE IF t2 = <<>> THEN <<>>
           ELSE <<[c EXCEPT !.text = t2]>>)
          \o BlocksHandled(content, j + 1, id)

\* C22: text-block handling of a deny-listed id by deep-clean v2.  For a kept
\* message record that mentions one deny-listed id: from every text block
\* that mentions the id and is about an error exactly the lines with the id
\* are removed, and the block is removed if it becomes empty; in every other
\* text block that mentions the id the id is replaced by the placeholder;
\* nothing else in the record changes.
C22_TextBlockHandling ==
  (tool = "clean2" /\ rewrote) =>
    LET kept == KeptRecords(prev)
        out == Records(mid)
    IN /\ Len(out) = Len(kept)
       /\ \A j \in 1..Len(kept) :
            (kept[j].k = "msg" /\ Cardinality(DeniedIdsIn(kept[j])) = 1) =>
              LET id == CHOOSE x \in DeniedIdsIn(kept[j]) : TRUE
              IN JSONparse(out[j]) =
                   [JSONparse(kept[j]) EXCEPT !.content = BlocksHandled(@, 1, id)]

\* C23: contentless records are dropped.  When the cleaning removes the last
\* content block of a message record, deep-clean v2 drops the record: no
\* message record with an empty content is in its output.  (Every message
\* record of the inputs has a content block.)
C23_ContentlessDropped ==
  (tool = "clean2" /\ rewrote) =>
    \A j \in 1..Len(mid) : mid[j].k = "msg" => mid[j].content # <<>>

\* a step that is a run of deep-clean v2
CleanV2Runs == runs' = runs + 1 /\ tool' = "clean2"

\* C24: convergence of the deep cleaner.  A run of deep-clean v2 on a log
\* that the latest run of deep-clean v2 has written finds nothing to remove
\* and nothing to clean, and does not rewrite the file.
C24_CleanerConverges ==
  [][(tool = "clean2" /\ rewrote /\ CleanV2Runs) => (~rewrote' /\ file' = file)]_vars

\* the ids of the tool_result blocks of f that no tool_use block of f has
DanglingIds(f) ==
  {id \in UNION {ResultsOf(f[i]) : i \in {x \in 1..Len(f) : IsMessageOf(f[x], "user")}} :
     UsePositions(f, id) = {}}

\* C25: a backward dangling result is reported and left alone.  For a
\* tool_result whose id is the id of no tool_use of the file, the scan of
\* fix-session reports a finding that names the id, and its record is
\* written unmodified to the output.
C25_DanglingReported ==
  (tool = "fix" /\ runs >= 1) =>
    \A id \in DanglingIds(prev) :
      /\ \E j \in 1..Len(issues) : issues[j].toolId = id
      /\ \A i \in ResultPositions(prev, id) : \E j \in 1..Len(file) : file[j] = prev[i]

\* ======================================================================
\* The tools run from their command lines
\* ======================================================================

\* What can go wrong in a run: nothing, reading the log, writing the backup,
\* replacing the log, taking the lock (deep-clean v2 only).
Faults == {"none", "read", "backup", "replace", "lock"}

Range(q) == {q[i] : i \in 1..Len(q)}

\* a confirmation gate that lets every run through
ProceedsAlways(auto, ans) == TRUE

\* autoFix || await promptUser(question)
Proceeds(auto, ans) == auto \/ ans

\* what the terminal shows at the gate: a prompt and its answer, unless --auto
PromptEv(auto, ans) ==
  IF auto THEN <<>> ELSE <<IF ans THEN "prompt:y" ELSE "prompt:n">>

\* the outcome of a run: the files it leaves, what the terminal showed, and
\* whether it ended in an exception
RunResult(f, b, p, m, iss, ev, failed) ==
  [file |-> f, backup |-> b, preclean |-> p, mid |-> m, issues |-> iss,
   ev |-> ev, failed |-> failed]

\* the run r, after the events ev0
Prefixed(r, ev0) == [r EXCEPT !.ev = ev0 \o @]

\* a createFixedSession that replaces the log without a backup
CreateFixedNoBackup(f, b, s, auto, a2, fault) ==
  [file |-> FixedLines(s), backup |-> b, ev |-> <<"replace">>, failed |-> FALSE]

\* createFixedSession(sessionPath, lines, issues, toolUseMap, autoFix): copy
\* the log to .backup, write .fixed, ask, rename .fixed onto the log
CreateFixed(f, b, s, auto, a2, fault) ==
  IF fault = "backup"
    THEN [file |-> f, backup |-> b, ev |-> <<"error">>, failed |-> TRUE]
  ELSE IF ~Proceeds(auto, a2)
    THEN [file |-> f, backup |-> f,
          ev |-> <<"backup">> \o PromptEv(auto, a2), failed |-> FALSE]
  ELSE IF fault = "replace"
    THEN [file |-> f, backup |-> f,
          ev |-> <<"backup">> \o PromptEv(auto, a2) \o <<"error">>, failed |-> TRUE]
  ELSE [file |-> FixedLines(s), backup |-> f,
        ev |-> <<"backup">> \o PromptEv(auto, a2) \o <<"replace">>, failed |-> FALSE]

\* the run of fixSession that ends with the createFixedSession c
WithFixed(c, f, p, iss, ev0) ==
  RunResult(c.file, c.backup, p, f, iss, ev0 \o c.ev, c.failed)

\* fixSession after its read loop, with the scan s and the issues iss:
\* report, ask, createFixedSession
FixReported(f, b, p, s, iss, auto, a1, a2, fault) ==
  IF iss = <<>>
    THEN RunResult(f, b, p, f, iss, <<"report">>, FALSE)
  ELSE IF ~Proceeds(auto, a1)
    THEN RunResult(f, b, p, f, iss, <<"report">> \o PromptEv(auto, a1), FALSE)
  ELSE WithFixed(CreateFixed(f, b, s, auto, a2, fault), f, p, iss,
                 <<"report">> \o PromptEv(auto, a1))

FixScanned(f, b, p, s, auto, a1, a2, fault) ==
  FixReported(f, b, p, s, Issues(s), auto, a1, a2, fault)

\* fixSession(sessionPath, autoFix)
FixRun(f, b, p, auto, a1, a2, fault) ==
  IF fault = "read"
    THEN RunResult(f, b, p, f, <<>>, <<"error">>, TRUE)
    ELSE FixScanned(f, b, p, Scan(f), auto, a1, a2, fault)

\* fix-session: fixSession(sessionPath, autoFix).catch(console.error) prints a
\* rejection and lets the process end normally
FixExit(failed) == 0

\* deep-clean-session.js: both modes end with .catch(console.error)
Clean1Exit(chain, failed) == 0

\* deep-clean-session-v2.js: the single-file mode ends with
\* .catch(error => { ...; process.exit(1) }); cleanSessionChain catches the
\* failure of each file and counts it
Clean2Exit(chain, failed) == IF failed /\ ~chain THEN 1 ELSE 0

ExitCode(by, chain, failed) ==
  IF by = "fix" THEN FixExit(failed)
  ELSE IF by = "clean1" THEN Clean1Exit(chain, failed)
  ELSE Clean2Exit(chain, failed)

\* the writes onto the log that the events of a run stand for: the first
\* replacement is the tool's own, a later one is that of the fix-session it
\* starts
WritesOf(by, ev) ==
  IF Cardinality({i \in 1..Len(ev) : ev[i] = "replace"}) = 0 THEN <<>>
  ELSE IF Cardinality({i \in 1..Len(ev) : ev[i] = "replace"}) = 1 THEN <<WriteBy(by)>>
  ELSE <<WriteBy(by), WriteBy("fix")>>

\* the process of the tool `by` ends with the run r
Finish(r, by, auto, chain) ==
  /\ file' = r.file
  /\ backup' = r.backup
  /\ preclean' = r.preclean
  /\ mid' = r.mid
  /\ issues' = r.issues
  /\ rewrote' = ("replace" \in Range(r.ev))
  /\ wlog' = WritesOf(by, r.ev)
  /\ cli' = [auto |-> auto, ev |-> r.ev, exit |-> ExitCode(by, chain, r.failed)]
  /\ prev' = file
  /\ runs' = runs + 1
  /\ tool' = by
  /\ UNCHANGED <<input, dir, quick>>

\* node fix-session.js [--auto] <session-file>
CliFix ==
  /\ runs < MaxCliRuns
  /\ \E auto \in BOOLEAN, a1 \in BOOLEAN, a2 \in BOOLEAN, fault \in Faults \ {"lock"} :
       Finish(FixRun(file, backup, preclean, auto, a1, a2, fault), "fix", auto, FALSE)

\* the run r of the fix-session that the cleaner starts, seen as the end of
\* the cleaner's run: c is what the cleaner wrote
ThenFixed(r, c, ev0) == Prefixed([r EXCEPT !.mid = c], ev0)

\* saveCleanedSession(sessionPath, cleanedLines, autoFix) of v1: copy the log
\* to .pre-deep-clean, write .cleaned, ask, rename, then fix-session --auto
SaveCleaned(f, b, p, c, auto, a2, fault) ==
  IF fault = "backup"
    THEN RunResult(f, b, p, f, <<>>, <<"error">>, TRUE)
  ELSE IF ~Proceeds(auto, a2)
    THEN RunResult(f, b, f, f, <<>>, <<"backup">> \o PromptEv(auto, a2), FALSE)
  ELSE IF fault = "replace"
    THEN RunResult(f, b, f, f, <<>>,
                   <<"backup">> \o PromptEv(auto, a2) \o <<"error">>, TRUE)
  ELSE ThenFixed(FixRun(c, b, f, TRUE, TRUE, TRUE, "none"), c,
                 <<"backup">> \o PromptEv(auto, a2) \o <<"replace">>)

\* deepCleanSession of v1 after its read loop, with the result c of the loop
Cleaned1(f, b, p, c, auto, a1, a2, fault) ==
  IF c.removed = 0 /\ c.cleaned = 0
    THEN RunResult(f, b, p, f, <<>>, <<"report">>, FALSE)
  ELSE IF ~Proceeds(auto, a1)
    THEN RunResult(f, b, p, f, <<>>, <<"report">> \o PromptEv(auto, a1), FALSE)
  ELSE Prefixed(SaveCleaned(f, b, p, c.lines, auto, a2, fault),
                <<"report">> \o PromptEv(auto, a1))

\* deepCleanSession(sessionPath, autoFix) of deep-clean-session.js
CleanRun1(f, b, p, auto, a1, a2, fault) ==
  IF fault = "read"
    THEN RunResult(f, b, p, f, <<>>, <<"error">>, TRUE)
    ELSE Cleaned1(f, b, p, Cleaned(f, 1), auto, a1, a2, fault)

\* deepCleanSession of v2 after its read loop, with the result c of the loop:
\* report, ask, write and commit() or rollback(), then fix-session --auto
Cleaned2(f, b, p, c, auto, a1, fault) ==
  IF c.removed = 0 /\ c.cleaned = 0
    THEN RunResult(f, b, p, f, <<>>, <<"report">>, FALSE)
  ELSE IF ~Proceeds(auto, a1)
    THEN RunResult(f, b, p, f, <<>>, <<"report">> \o PromptEv(auto, a1), FALSE)
  ELSE IF fault = "replace"
    THEN RunResult(f, b, p, f, <<>>,
                   <<"report">> \o PromptEv(auto, a1) \o <<"error">>, TRUE)
  ELSE ThenFixed(FixRun(c.lines, b, p, TRUE, TRUE, TRUE, "none"), c.lines,
                 <<"report">> \o PromptEv(auto, a1) \o <<"replace">>)

\* deepCleanSession(sessionPath, autoFix) of deep-clean-session-v2.js, on a
\* log that no other process touches: begin(), then the read loop on the
\* working copy
CleanRun2(f, b, p, auto, a1, fault) ==
  IF fault \in {"lock", "backup", "read"}
    THEN RunResult(f, b, p, f, <<>>, <<"error">>, TRUE)
    ELSE Cleaned2(f, b, p, Cleaned(f, 2), auto, a1, fault)

\* node deep-clean-session.js [--auto] <session-file>, or --chain <dir> for a
\* directory that holds this log: deepCleanSession(sessionPath, true)
CliClean1 ==
  /\ runs < MaxCliRuns
  /\ \E chain \in BOOLEAN, auto \in BOOLEAN, a1 \in BOOLEAN, a2 \in BOOLEAN,
        fault \in Faults \ {"lock"} :
       Finish(CleanRun1(file, backup, preclean, auto \/ chain, a1, a2, fault),
              "clean1", auto \/ chain, chain)

\* node deep-clean-session-v2.js [--auto] <session-file>, or --chain <dir>
CliClean2 ==
  /\ runs < MaxCliRuns
  /\ \E chain \in BOOLEAN, auto \in BOOLEAN, a1 \in BOOLEAN, fault \in Faults :
       Finish(CleanRun2(file, backup, preclean, auto \/ chain, a1, fault),
              "clean2", auto \/ chain, chain)

CliLineUniverse ==
  { Msg("assistant", <<UseB("t1")>>),
    Msg("user", <<ResB("t1")>>),
    Msg("user", <<TextB(<<ErrLine({"X"}), PlainLine>>)>>) }

CliLogs == {f \in SeqsUpTo(CliLineUniverse, MaxLen) : UniqueUses(f)}

InitCli ==
  /\ InitLock
  /\ InitTxIdle
  /\ InitTools
  /\ file \in CliLogs
  /\ input = file
  /\ prev = file
  /\ mid = file
  /\ backup = NoFile
  /\ preclean = NoFile
  /\ issues = <<>>
  /\ rewrote = FALSE
  /\ runs = 0
  /\ tool = "none"
  /\ wlog = <<>>

CliFrame == UNCHANGED <<lockVars, txVars, outOfTurn, wrapVars>>

NextCli ==
  \/ CliFix /\ CliFrame
  \/ CliClean1 /\ CliFrame
  \/ CliClean2 /\ CliFrame

SpecCli == InitCli /\ [][NextCli]_vars

\* the place of the first event e in ev
FirstAt(ev, e) == CHOOSE i \in 1..Len(ev) : ev[i] = e /\ \A j \in 1..(i - 1) : ev[j] # e

\* e is in ev, and before the first "replace"
BeforeReplace(ev, e) == e \in Range(ev) /\ FirstAt(ev, e) < FirstAt(ev, "replace")

\* C26: confirmation gates mutation, for fix-session and both deep cleaners.
\* The log is replaced only after the report has been printed and, without
\* --auto, the user has answered 'y' to every prompt; when the user declines,
\* the content of the log is unchanged; with --auto the report is printed
\* and no prompt is issued.
C26_ConfirmationGates ==
  tool # "none" =>
    /\ "replace" \in Range(cli.ev) =>
         /\ BeforeReplace(cli.ev, "report")
         /\ "prompt:n" \notin Range(cli.ev)
         /\ ~cli.auto => BeforeReplace(cli.ev, "prompt:y")
    /\ "prompt:n" \in Range(cli.ev) => file = prev
    /\ file # prev => "replace" \in Range(cli.ev)
    /\ cli.auto =>
         /\ "prompt:y" \notin Range(cli.ev) /\ "prompt:n" \notin Range(cli.ev)
         /\ "error" \notin Range(cli.ev) => "report" \in Range(cli.ev)

\* fix-session without --auto has replaced the log after the report and two
\* prompts answered 'y'
C26_Witness ==
  /\ tool = "fix"
  /\ ~cli.auto
  /\ cli.ev = <<"report", "prompt:y", "backup", "prompt:y", "replace">>
  /\ file # prev

\* C27: exit codes.  A run ends with code 0 when it succeeds or has nothing
\* to do, and with a code other than 0 when it hits an error (lock timeout,
\* failure while reading, backing up or replacing the file), for fix-session
\* and both deep cleaners, single file or --chain.
C27_ExitCodes ==
  tool # "none" => (cli.exit = 0 <=> "error" \notin Range(cli.ev))

\* C28: backup precedes replacement.  Whenever fix-session or deep-clean v1
\* replaces the log, the backup (.backup, .pre-deep-clean) was written before
\* the replacement and holds the content the log had before the run.
C28_BackupPrecedesReplacement ==
  (tool \in {"fix", "clean1"} /\ "replace" \in Range(cli.ev)) =>
    /\ BeforeReplace(cli.ev, "backup")
    /\ tool = "fix" => backup = prev
    /\ tool = "clean1" => preclean = prev

\* deep-clean v1 without --auto has replaced a log, and the fix-session it
\* started has replaced it again
C28_Witness ==
  /\ tool = "clean1"
  /\ ~cli.auto
  /\ Len(wlog) = 2
  /\ file # prev
  /\ preclean = prev

\* ======================================================================
\* The session directory: cleanOldBackups and the files of a transaction
\* ======================================================================

\* Ages are counted in a unit in which the default maxAge (7 days) is
\* DefaultMaxAge; a file just written has age 0.
DefaultMaxAge == 1
Ages == 0..MaxAge

\* const backupPatterns = [...]
backupPatterns == {".backup", ".fixed", ".cleaned", ".pre-deep-clean", ".tx-backup"}

\* the end of a file name from its last dot
Ext(n) ==
  CASE n = "s.jsonl" -> ".jsonl"
    [] n = "s.jsonl.lock" -> ".lock"
    [] n = "s.jsonl.tx-temp" -> ".tx-temp"
    [] n = "s.jsonl.tx-backup" -> ".tx-backup"
    [] n = "s.jsonl.backup" -> ".backup"
    [] n = "s.jsonl.pre-deep-clean" -> ".pre-deep-clean"

\* backupPatterns.some(pattern => file.endsWith(pattern))
IsBackupName(n) == Ext(n) \in backupPatterns

\* the directory after cleanOldBackups(directory, maxAge)
Swept(d, maxAge) ==
  [n \in DOMAIN d |->
     IF IsBackupName(n) /\ d[n] # Absent /\ d[n] > maxAge THEN Absent ELSE d[n]]

SweepFrame ==
  UNCHANGED <<dataVars, lockVars, outOfTurn, cli, quick, wrapVars,
              orig, txBackup, txTemp, txLock, pre, hist, opc>>

cleanOldBackups ==
  /\ \E maxAge \in Ages : dir' = Swept(dir, maxAge)
  /\ UNCHANGED <<txpc, locked>>

\* time passes while no transaction is open
DirTick ==
  /\ txpc = "idle"
  /\ dir' = [n \in DOMAIN dir |->
               IF dir[n] = Absent \/ dir[n] = MaxAge THEN dir[n] ELSE dir[n] + 1]
  /\ UNCHANGED <<txpc, locked>>

\* begin() as the directory sees it: the lock file is made, then the two
\* copies; a copy that throws leaves begin() with the lock only
DirBegin ==
  /\ txpc = "idle"
  /\ dir["s.jsonl.lock"] = Absent
  /\ locked' = TRUE
  /\ \E ok \in BOOLEAN :
       IF ok /\ dir["s.jsonl"] # Absent
         THEN /\ dir' = [dir EXCEPT !["s.jsonl.lock"] = 0,
                                    !["s.jsonl.tx-backup"] = 0,
                                    !["s.jsonl.tx-temp"] = 0]
              /\ txpc' = "begun"
         ELSE /\ dir' = [dir EXCEPT !["s.jsonl.lock"] = 0]
              /\ txpc' = "error"

\* commit(): rename the working copy onto the log, unlink the backup, release
DirCommit ==
  /\ txpc = "begun"
  /\ dir' = [dir EXCEPT !["s.jsonl"] = dir["s.jsonl.tx-temp"],
                        !["s.jsonl.tx-temp"] = Absent,
                        !["s.jsonl.tx-backup"] = Absent,
                        !["s.jsonl.lock"] = Absent]
  /\ txpc' = "idle"
  /\ locked' = FALSE

\* rollback(): restore and unlink the backup if there is one, unlink the
\* working copy if there is one, release
DirRollback ==
  /\ txpc \in {"begun", "error"}
  /\ locked
  /\ dir' = [dir EXCEPT !["s.jsonl"] = IF dir["s.jsonl.tx-backup"] # Absent THEN 0 ELSE @,
                        !["s.jsonl.tx-backup"] = Absent,
                        !["s.jsonl.tx-temp"] = Absent,
                        !["s.jsonl.lock"] = Absent]
  /\ txpc' = "idle"
  /\ locked' = FALSE

InitSweep ==
  /\ file = <<>>
  /\ input = <<>>
  /\ prev = <<>>
  /\ mid = <<>>
  /\ backup = NoFile
  /\ preclean = NoFile
  /\ issues = <<>>
  /\ rewrote = FALSE
  /\ runs = 0
  /\ tool = "none"
  /\ wlog = <<>>
  /\ InitLock
  /\ InitTxIdle
  /\ cli = NoRun
  /\ quick = "none"
  /\ InitWrap
  /\ dir \in [DirNames -> {Absent} \cup Ages]
  /\ dir["s.jsonl.lock"] = Absent
  /\ dir["s.jsonl.tx-temp"] = Absent

NextSweep ==
  \/ cleanOldBackups /\ SweepFrame
  \/ DirTick /\ SweepFrame
  \/ DirBegin /\ SweepFrame
  \/ DirCommit /\ SweepFrame
  \/ DirRollback /\ SweepFrame

SpecSweep == InitSweep /\ [][NextSweep]_vars

\* the step removes the file n
Deleted(n) == dir[n] # Absent /\ dir'[n] = Absent

\* the step is one of FileTransaction
TransactionStep == txpc' # txpc

\* C29: the retention sweep deletes only old backups.  A file is deleted by
\* cleanOldBackups(directory, maxAge) only if its name ends with a backup
\* suffix and its age is greater than maxAge (so never a session log, a lock
\* file or a working file), and FileTransaction deletes no backup that is
\* older than the default maxAge.
C29_SweepDeletesOnlyOldBackups ==
  [][\A n \in DirNames :
       Deleted(n) =>
         IF TransactionStep
           THEN ~(IsBackupName(n) /\ dir[n] > DefaultMaxAge)
           ELSE \E maxAge \in Ages :
                  dir' = Swept(dir, maxAge) /\ IsBackupName(n) /\ dir[n] > maxAge]_vars

\* ======================================================================
\* claude-patched: the quick check before a session is resumed
\* ======================================================================

\* entry.role and entry.content, read at the top level of the parsed line
TopRole(entry) == IF entry.k = "bare" THEN entry.role ELSE "undefined"
TopContent(entry) == IF entry.k = "bare" THEN entry.content ELSE <<>>

\* The loop of checkSessionForIssues; st = [pending, hasIssues, stop].  A line
\* that does not parse is ignored.
RECURSIVE QuickLoop(_, _, _)
QuickLoop(f, n, st) ==
  IF n > Len(f) \/ st.stop THEN st
  ELSE IF ~Parses(f[n]) THEN QuickLoop(f, n + 1, st)
  ELSE LET entry == JSONparse(f[n])
           p1 == IF TopRole(entry) = "assistant"
                   THEN st.pending \cup UsesOf([entry EXCEPT !.content = TopContent(entry)])
                   ELSE st.pending
           hit == p1 # {} /\ TopRole(entry) # "user"
           p2 == IF TopRole(entry) = "user"
                   THEN p1 \ (ResultsOf([entry EXCEPT !.content = TopContent(entry)]) \ {NoId})
                   ELSE p1
       IN IF hit THEN [pending |-> p1, hasIssues |-> TRUE, stop |-> TRUE]
          ELSE QuickLoop(f, n + 1, [st EXCEPT !.pending = p2])

\* return hasIssues || pendingToolUses.size > 0
checkSessionForIssues(f) ==
  LET st == QuickLoop(f, 1, [pending |-> {}, hasIssues |-> FALSE, stop |-> FALSE])
  IN st.hasIssues \/ st.pending # {}

\* The resume path of the wrapper: the quick check, and fix-session --auto
\* when it says the session needs repair
ResumeSession ==
  /\ runs < MaxRuns
  /\ quick' = IF checkSessionForIssues(file) THEN "true" ELSE "false"
  /\ IF checkSessionForIssues(file)
       THEN FixSession
       ELSE /\ runs' = runs + 1
            /\ prev' = file
            /\ UNCHANGED <<file, input, backup, preclean, issues, rewrote, tool, wlog, mid>>
  /\ UNCHANGED <<cli, dir>>

\* a record as the messages API has it, without the message wrapper
Bare(l) == [l EXCEPT !.k = "bare"]

ResumeLineUniverse ==
  { Junk,
    Msg("assistant", <<TextB(<<PlainLine>>)>>),
    Msg("assistant", <<UseB("t1")>>),
    Msg("user", <<ResB("t1")>>),
    Bare(Msg("assistant", <<UseB("t2")>>)),
    Bare(Msg("user", <<ResB("t2")>>)) }

ResumeLogs == {f \in SeqsUpTo(ResumeLineUniverse, MaxLen) : UniqueUses(f)}

InitResume ==
  /\ InitLock
  /\ InitTxIdle
  /\ InitTools
  /\ file \in ResumeLogs
  /\ input = file
  /\ prev = file
  /\ mid = file
  /\ backup = NoFile
  /\ preclean = NoFile
  /\ issues = <<>>
  /\ rewrote = FALSE
  /\ runs = 0
  /\ tool = "none"
  /\ wlog = <<>>

NextResume == ResumeSession /\ UNCHANGED <<lockVars, txVars, outOfTurn, wrapVars>>

SpecResume == InitResume /\ [][NextResume]_vars

\* every record of the log has the on-disk session format that fix-session
\* reads (role and content under entry.message)
OnDiskFormat(f) == \A i \in 1..Len(f) : f[i].k # "bare"

\* C30: the quick check on resume.  For a log in the on-disk session format,
\* checkSessionForIssues returns true exactly when some tool_use block has
\* no matching tool_result in the record directly after it.
C30_QuickCheck ==
  [][(runs' = runs + 1 /\ OnDiskFormat(file)) =>
       (quick' = "true" <=> ~Adjacent(file))]_vars

\* ------------------------------------------------- SafeOutputBuffer
\* claude-patched pipes the child's stdout and stderr through one
\* SafeOutputBuffer each.  A chunk is modelled by its length, data.toString()
\* by the length of the chunk, and dataStr.slice(0, remaining) by a chunk of
\* length remaining.

RECURSIVE SumSeq(_)
SumSeq(q) == IF q = <<>> THEN 0 ELSE Head(q) + SumSeq(Tail(q))

\* an append() that would drop a chunk that does not fit instead of storing
\* the part that fits
appendDropsWhole(b, len) ==
  LET warned == [b EXCEPT !.warningShown =
                   b.warningShown \/ b.totalSize > WARNING_THRESHOLD]
  IN IF b.totalSize + len > b.maxSize
       THEN [buf |-> [warned EXCEPT !.truncated = TRUE], ret |-> FALSE]
       ELSE [buf |-> [warned EXCEPT !.chunks = Append(b.chunks, len),
                                    !.totalSize = b.totalSize + len],
             ret |-> TRUE]

\* append(data) on the buffer b with a chunk of length len: the buffer
\* after the call and the value returned
append(b, len) ==
  LET warned == [b EXCEPT !.warningShown =
                   b.warningShown \/ b.totalSize > WARNING_THRESHOLD]
      remaining == b.maxSize - b.totalSize
  IN IF b.totalSize + len > b.maxSize
       THEN [buf |-> IF remaining > 0
                       THEN [warned EXCEPT !.chunks = Append(b.chunks, remaining),
                                           !.totalSize = b.totalSize + remaining,
                                           !.truncated = TRUE]
                       ELSE [warned EXCEPT !.truncated = TRUE],
             ret |-> FALSE]
       ELSE [buf |-> [warned EXCEPT !.chunks = Append(b.chunks, len),
                                    !.totalSize = b.totalSize + len],
             ret |-> TRUE]

\* claude.stdout.on('data'): the chunk is passed on when append() returns
\* true, otherwise the child is sent SIGTERM (data already in the pipe still
\* arrives afterwards)
OnStdout ==
  /\ stream.events < MaxEvents
  /\ \E len \in 0..MaxChunk :
       LET r == append(outputBuffer, len)
       IN /\ outputBuffer' = r.buf
          /\ stream' = [events |-> stream.events + 1, on |-> "stdout",
                        len |-> len, was |-> outputBuffer.truncated,
                        ret |-> r.ret,
                        written |-> IF r.ret THEN stream.written + len
                                    ELSE stream.written,
                        killed |-> stream.killed \/ ~r.ret]
  /\ UNCHANGED <<errorBuffer, chainRun, tail>>

\* claude.stderr.on('data'): the chunk is passed on when append() returns true
OnStderr ==
  /\ stream.events < MaxEvents
  /\ \E len \in 0..MaxChunk :
       LET r == append(errorBuffer, len)
       IN /\ errorBuffer' = r.buf
          /\ stream' = [events |-> stream.events + 1, on |-> "stderr",
                        len |-> len, was |-> errorBuffer.truncated,
                        ret |-> r.ret,
                        written |-> IF r.ret THEN stream.written + len
                                    ELSE stream.written,
                        killed |-> stream.killed]
  /\ UNCHANGED <<outputBuffer, chainRun, tail>>

InitBuffer == InitData /\ InitLock /\ InitTxIdle

NextBuffer ==
  \/ OnStdout /\ UNCHANGED <<dataVars, lockVars, txVars, outOfTurn, toolVars>>
  \/ OnStderr /\ UNCHANGED <<dataVars, lockVars, txVars, outOfTurn, toolVars>>

SpecBuffer == InitBuffer /\ [][NextBuffer]_vars

\* the buffer the latest event was appended to, before and after the append
Appended(o, e, on) == IF on = "stdout" THEN o ELSE e

\* C31: the output cap of SafeOutputBuffer.  After every append() totalSize is
\* the sum of the lengths of the stored chunks and is at most maxSize;
\* append() returns false exactly when the whole chunk did not fit, and a
\* whole chunk that fits is stored; truncated, once true, stays true, and
\* then every later non-empty append() returns false and stores nothing.
C31_OutputCap ==
  [][stream'.events = stream.events + 1 =>
       LET b == Appended(outputBuffer, errorBuffer, stream'.on)
           a == Appended(outputBuffer', errorBuffer', stream'.on)
           len == stream'.len
       IN /\ a.totalSize = SumSeq(a.chunks)
          /\ a.totalSize <= a.maxSize
          /\ stream'.ret <=> b.totalSize + len <= b.maxSize
          /\ stream'.ret => a.chunks = Append(b.chunks, len)
          /\ b.truncated => a.truncated
          /\ (b.truncated /\ len > 0) => (~stream'.ret /\ a.chunks = b.chunks)]_vars

\* a non-empty chunk arrived on stdout after the buffer was truncated by a
\* chunk of which only a part was stored
C31_Witness ==
  /\ stream.on = "stdout"
  /\ stream.was
  /\ stream.len > 0
  /\ ~stream.ret
  /\ outputBuffer.totalSize = outputBuffer.maxSize
  /\ Len(outputBuffer.chunks) >= 2

\* ------------------------------------------------- chain mode of v2
\* cleanSessionChain(projectDir).  A directory entry is [id, ext, mtime]; the
\* listing keeps the names that end with '.jsonl' and with neither '.backup'
\* nor '.cleaned', and sorts them by mtime, newest first.

ChainExts == {".jsonl", ".jsonl.backup", ".txt"}
ChainTimes == 1..2

\* name.endsWith(suffix), for the extensions above
EndsWith(ext, suffix) ==
  \/ ext = suffix
  \/ ext = ".jsonl.backup" /\ suffix = ".backup"

IsSessionFile(e) ==
  /\ EndsWith(e.ext, ".jsonl")
  /\ ~EndsWith(e.ext, ".backup")
  /\ ~EndsWith(e.ext, ".cleaned")

\* the orders in which sort() may leave the session files of the listing d:
\* by mtime, newest first, files of equal mtime in any order (the order of
\* readdir)
SortedFiles(d) ==
  LET ids == {e.id : e \in {x \in d : IsSessionFile(x)}}
      mt(i) == (CHOOSE e \in d : e.id = i).mtime
  IN {q \in SeqsUpTo(ids, Cardinality(ids)) :
        /\ Len(q) = Cardinality(ids)
        /\ \A i, j \in 1..Len(q) : i < j => (q[i] # q[j] /\ mt(q[i]) >= mt(q[j]))}

\* the directory listings: each of the MaxFiles names is missing or has an
\* extension and an mtime
Listings ==
  LET Slot == {<<>>} \cup [ext : ChainExts, mtime : ChainTimes]
  IN {{[id |-> i, ext |-> c[i].ext, mtime |-> c[i].mtime] :
         i \in {j \in 1..MaxFiles : c[j] # <<>>}} : c \in [1..MaxFiles -> Slot]}

\* the outcomes of deepCleanSession(sessionPath, true): it commits, it rolls
\* back because no deny-listed id was found, or it throws
ChainOutcomes == {"committed", "rolledback", "threw"}

\* a loop that would stop at the first log that fails
AfterFileAborting(c, f, outcome) ==
  LET log == Append(c.log, [file |-> f, outcome |-> outcome])
  IN IF outcome = "threw"
       THEN [c EXCEPT !.log = log, !.errorCount = c.errorCount + 1,
                      !.st = "complete"]
       ELSE [c EXCEPT !.log = log, !.successCount = c.successCount + 1,
                      !.st = IF Len(log) = Len(c.files) THEN "complete"
                             ELSE "running"]

\* one turn of the loop over files: the try/catch around deepCleanSession
AfterFile(c, f, outcome) ==
  LET log == Append(c.log, [file |-> f, outcome |-> outcome])
      st == IF Len(log) = Len(c.files) THEN "complete" ELSE "running"
  IN IF outcome = "threw"
       THEN [c EXCEPT !.log = log, !.errorCount = c.errorCount + 1, !.st = st]
       ELSE [c EXCEPT !.log = log, !.successCount = c.successCount + 1, !.st = st]

\* readdirSync, filter and sort; readdirSync or statSync may throw, which
\* lands in the outer catch
ChainList ==
  /\ chainRun.st = "idle"
  /\ \/ \E d \in Listings : \E q \in SortedFiles(d) :
          chainRun' = [NoChain EXCEPT !.files = q,
                                      !.st = IF q = <<>> THEN "complete"
                                             ELSE "running"]
     \/ chainRun' = [NoChain EXCEPT !.st = "failed"]
  /\ UNCHANGED <<outputBuffer, errorBuffer, stream, tail>>

\* for (const file of files): the next log is cleaned
ChainClean ==
  /\ chainRun.st = "running"
  /\ \E outcome \in ChainOutcomes :
       chainRun' = AfterFile(chainRun, chainRun.files[Len(chainRun.log) + 1],
                             outcome)
  /\ UNCHANGED <<outputBuffer, errorBuffer, stream, tail>>

NextChain ==
  \/ ChainList /\ UNCHANGED <<dataVars, lockVars, txVars, outOfTurn, toolVars>>
  \/ ChainClean /\ UNCHANGED <<dataVars, lockVars, txVars, outOfTurn, toolVars>>

SpecChain == InitBuffer /\ [][NextChain]_vars

\* how many entries of the log of the loop have an outcome in s
CountOutcomes(s) ==
  Cardinality({i \in 1..Len(chainRun.log) : chainRun.log[i].outcome \in s})

\* C32: chain mode isolates failures.  The logs are cleaned in the order of
\* the listing, each once; a log that fails is counted and the loop goes on to
\* the next one; when the loop is over every listed log has been attempted
\* and successCount + errorCount is the number of session files found.
C32_ChainIsolatesFailures ==
  /\ Len(chainRun.log) <= Len(chainRun.files)
  /\ \A i \in 1..Len(chainRun.log) : chainRun.log[i].file = chainRun.files[i]
  /\ \A i, j \in 1..Len(chainRun.files) :
       i # j => chainRun.files[i] # chainRun.files[j]
  /\ chainRun.errorCount = CountOutcomes({"threw"})
  /\ chainRun.successCount = CountOutcomes({"committed", "rolledback"})
  /\ chainRun.st = "running" => Len(chainRun.log) < Len(chainRun.files)
  /\ chainRun.st = "complete" =>
       /\ Len(chainRun.log) = Len(chainRun.files)
       /\ chainRun.successCount + chainRun.errorCount = Len(chainRun.files)

\* a chain of three logs is over; the first log failed and the later ones
\* were cleaned
C32_Witness ==
  /\ chainRun.st = "complete"
  /\ Len(chainRun.files) = 3
  /\ chainRun.log[1].outcome = "threw"
  /\ chainRun.log[2].outcome = "committed"
  /\ chainRun.log[3].outcome = "rolledback"

\* the unlink of release() by p removes a file that is at lockPath
ReleaseRemoves(p) ==
  /\ pc[p] = "rel_unlink"
  /\ pc'[p] = "idle"
  /\ lockFile.st # "absent"
  /\ lockFile'.st = "absent"

\* C33: release() deletes the lock file only if it holds the lockId of the
\* releasing instance.  Whatever other processes do between the read and the
\* unlink of release(), the file that release() removes is the lock of the
\* process that releases.
C33_ReleaseOnlyOwnLock ==
  [][\A p \in Procs : ReleaseRemoves(p) => lockFile.owner = p]_vars

\* how many lines of the log f are the line r
Occurrences(f, r) == Cardinality({i \in 1..Len(f) : f[i] = r})

\* the line is an error result of the shape createFixedSession makes up
IsSyntheticLine(l) == \E id \in FixIds : l = SyntheticResult(id)

\* C34: fix-session preserves the multiset of records.  The rewritten log
\* holds every parsed record of the log it was made from exactly as often as
\* that log held it, and in addition only synthetic results; this includes
\* records with two or more tool_use blocks and logs in which two records
\* carry a tool_result for the same id.
C34_RecordsPreserved ==
  (tool = "fix" /\ rewrote) =>
    /\ \A r \in Range(prev) :
         Parses(r) => IF IsSyntheticLine(r)
                        THEN Occurrences(file, r) >= Occurrences(prev, r)
                        ELSE Occurrences(file, r) = Occurrences(prev, r)
    /\ \A r \in Range(file) : IsSyntheticLine(r) \/ r \in Range(prev)

\* the ids for which the scan of f recorded a resultLineNum
ResultLineNums(f) ==
  {id \in DOMAIN Scan(f).map.use : Scan(f).map.res[id] # 0}

\* C35: line numbers and record indexes agree in fix-session.  For every
\* tool_use whose result the scan found, the element of lines that
\* createFixedSession takes as lines[resultLineNum - 1] is the record read at
\* line resultLineNum, also when unparsable lines precede it, and that
\* record, the genuine tool_result, is in the rewritten log.
C35_LineNumbersAgree ==
  (tool = "fix" /\ rewrote) =>
    \A id \in ResultLineNums(prev) :
      LET s == Scan(prev)
          n == s.map.res[id]
      IN /\ n <= Len(s.lines)
         /\ s.lines[n].lineNum = n
         /\ prev[n] \in Range(file)

\* the cleaner of one id: deepCleanEntry of v1, preciselCleanEntry of v2
EntryCleaner(entry, v, id) ==
  IF v = 1 THEN deepCleanEntry(entry, id) ELSE preciselCleanEntry(entry, id)

\* the entry cleaned of the deny-listed ids from the j-th on, one after the
\* other: each id is cleaned from what the cleaning of the ids before it left
RECURSIVE ComposedFrom(_, _, _)
ComposedFrom(entry, v, j) ==
  IF j > Len(PROBLEMATIC_TOOL_IDS) THEN entry
  ELSE LET r == EntryCleaner(entry, v, PROBLEMATIC_TOOL_IDS[j])
       IN ComposedFrom(IF r.cleaned THEN r.entry ELSE entry, v, j + 1)

\* the line the cleaner is to write for the kept line l
ComposedLine(l, v) ==
  IF Parses(l) THEN JSONstringify(ComposedFrom(JSONparse(l), v, 1)) ELSE l

\* C36: cleaning composes over the deny-listed ids, in v1 and in v2.  The
\* record written for a kept record is the record cleaned of the first id and
\* then, from that result, of the second id.
C36_CleaningComposes ==
  (tool \in {"clean1", "clean2"} /\ rewrote) =>
    LET kept == KeptRecords(prev)
        out == Records(mid)
        v == IF tool = "clean1" THEN 1 ELSE 2
    IN /\ Len(out) = Len(kept)
       /\ \A j \in 1..Len(kept) : out[j] = ComposedLine(kept[j], v)

\* begin() has thrown in one of its copies: the lock is taken and this
\* transaction has at most written its backup, a copy of the original
BeginFailedLocked == txpc = "error" /\ ~hist.begun /\ locked

\* C37: rollback restores only the backup of this transaction.  After a
\* begin() that took the lock and then failed, with a backup file or a working
\* file left on disk by an earlier run, rollback() leaves the original with
\* its content, and a commit() called when begin() has not completed never
\* installs (nor consumes) a working file that this transaction did not write.
C37_OnlyOwnBackupRestored ==
  [][/\ (Rollback /\ BeginFailedLocked) => orig' = orig
     /\ (CommitOutOfTurn /\ ~hist.begun) => (orig' = orig /\ txTemp' = txTemp)]_vars

\* ------------------------------------- a transaction on a log in use
\* The conversation process appends records to the log with no lock while a
\* FileTransaction runs on it.  tail counts, for the log, the backup and the
\* working file, how many of the appended records the file holds; a copy
\* carries the records of its source, a rename those of the renamed file.

\* the conversation process appends a record to originalPath
ConversationAppend ==
  /\ tail.total < MaxAppends
  /\ tail' = [tail EXCEPT !.orig = @ + 1, !.total = @ + 1]
  /\ UNCHANGED txVars

\* fs.copyFileSync(originalPath, backupPath)
TailBackup ==
  tail' = IF txpc' = "backed" THEN [tail EXCEPT !.backup = tail.orig] ELSE tail

\* fs.copyFileSync(originalPath, tempPath)
TailWorkingCopy ==
  tail' = IF txpc' = "begun" THEN [tail EXCEPT !.temp = tail.orig] ELSE tail

\* fs.renameSync(tempPath, originalPath) and the unlink of the backup
TailCommit ==
  tail' = IF txpc' = "committed"
            THEN [tail EXCEPT !.orig = tail.temp, !.temp = 0, !.backup = 0]
            ELSE tail

\* fs.copyFileSync(backupPath, originalPath) and the two unlinks
TailRollback ==
  tail' = IF ~locked THEN tail
          ELSE [tail EXCEPT !.orig = IF txBackup # Absent THEN tail.backup ELSE @,
                            !.temp = 0, !.backup = 0]

AppendFrame ==
  UNCHANGED <<dataVars, lockVars, outOfTurn, toolVars,
              outputBuffer, errorBuffer, stream, chainRun>>

NextAppend ==
  \/ ConversationAppend /\ AppendFrame
  \/ BeginAcquire /\ UNCHANGED tail /\ AppendFrame
  \/ BeginBackup /\ TailBackup /\ AppendFrame
  \/ BeginWorkingCopy /\ TailWorkingCopy /\ AppendFrame
  \/ WriteWorking /\ UNCHANGED tail /\ AppendFrame
  \/ Fail /\ UNCHANGED tail /\ AppendFrame
  \/ Commit /\ TailCommit /\ AppendFrame
  \/ Rollback /\ TailRollback /\ AppendFrame
  \/ NewTransaction /\ UNCHANGED tail /\ AppendFrame

SpecAppend == InitTxSpec /\ [][NextAppend]_vars

\* C38: concurrent appends survive a transaction.  When a transaction whose
\* begin() completed has been committed or rolled back, every record that
\* the conversation process appended to the log, also between begin() and
\* the commit or rollback, is in the log.
C38_AppendsSurvive ==
  (txpc \in {"committed", "rolledback"} /\ hist.begun) => tail.orig = tail.total

\* rollback() returns normally
RollbackReturns == txpc \in {"begun", "error"} /\ txpc' = "rolledback"

\* C39: no transaction artifacts remain.  When commit() or rollback() has
\* returned without an exception the transaction is not locked and no lock
\* file of this process is on disk; and if the transaction had taken the lock,
\* so that it may have written a backup and a working file, neither the
\* '.tx-backup' nor the '.tx-temp' file exists.
C39_NoArtifactsRemain ==
  [][(CommitReturns \/ RollbackReturns) =>
       /\ ~locked'
       /\ txLock' \notin {"tx", "tx_old"}
       /\ locked => (txBackup' = Absent /\ txTemp' = Absent)]_vars

\* a transaction that had written its working file was rolled back, and
\* neither its files nor its lock are left
C39_Witness ==
  /\ txpc = "rolledback"
  /\ hist.begun /\ hist.wrote
  /\ txBackup = Absent /\ txTemp = Absent
  /\ txLock = "none" /\ ~locked

\* the text blocks of the record that mention the id
TextBlocksWith(l, id) ==
  {j \in 1..Len(l.content) :
     l.content[j].type = "text" /\ TextIncludes(l.content[j].text, id)}

\* C40: deep-clean v2 examines every text block on its own.  In a kept
\* message record that mentions one deny-listed id, no text block that
\* contains the id is passed over: after the cleaning no text block of the
\* record contains the id, however many text blocks contained it.
C40_TextBlocksIndependent ==
  (tool = "clean2" /\ rewrote) =>
    LET kept == KeptRecords(prev)
        out == Records(mid)
    IN /\ Len(out) = Len(kept)
       /\ \A j \in 1..Len(kept) :
            (kept[j].k = "msg" /\ Cardinality(DeniedIdsIn(kept[j])) = 1) =>
              \A id \in DeniedIdsIn(kept[j]) : TextBlocksWith(out[j], id) = {}

====
